---------------------------- MODULE Spec2Model ----------------------------
(***************************************************************************)
(* The exam paper model of src/src/actions/exam.ts: papers, question       *)
(* snapshots, attempts and answers in the backing store, and the request   *)
(* handlers that run concurrently against it.  A handler is a sequence of  *)
(* steps, one per awaited storage or network call; between two steps of    *)
(* one request any step of another request may run.  The first step of a   *)
(* handler is taken when its request arrives.  Every request comes from a  *)
(* signed-in user.  Time is counted in calendar days.  Rows hold the       *)
(* columns the handlers read or compare; a table is a sequence in          *)
(* insertion order and a row's id is its position.                         *)
(*                                                                         *)
(* The exam store of the browser (src/unnamed/part_001): the attempt at    *)
(* hand, its countdown, the interval the window has scheduled for it and   *)
(* the submitAttempt calls the store has sent.  A method of the store runs *)
(* in one step up to its first await.                                      *)
(***************************************************************************)
EXTENDS Integers, Sequences, FiniteSets, TLC

(***************************************************************************)
(* Bounds of the model.                                                    *)
(***************************************************************************)
MaxPaperIds == 1
MaxAttempts == 2
MaxAnswers == 1
MaxOps == 5
MaxScoreSnapshots == 2
ExamOps == 4
QuotaOps == 4
MaxDay == 1
DailyOps == 5
DailyAttempts == 3
StartOps == 5
StartPapers == 2
LastDay == 2
IsolationOps == 5
AnswerRaceOps == 5
TimerMinutes == 1
StoreAttempts == 1
MaxHandles == 2
MaxCalls == 1
AnswerRaceRows == 2
IsolationPapers == 2
HistoryOps == 4
HistoryPapers == 2
HistoryAttempts == 2
QuotaPaperIds == 3
ExamAnswers == 23
MaxScoreAnswers == 2
SummaryDay == 7
SummaryAttempts == 2
SummaryCalls == 2
PushOps == 4
OverlapSeconds == 3
SummaryRaceOps == 4

(***************************************************************************)
(* Program constants: paperSchema's lower limits, and FREE_LIMITS.         *)
(***************************************************************************)
MinQuestionCount == 5
MinTimeLimit == 5
maxPapers == 1
maxAttemptsPerDay == 2
historyDays == 2
DefaultLimit == 20
SecondsPerMinute == 60
WeekDays == 6
SummaryCorrect == { 0, 2, 5 }

Users == {"u1", "u2"}
PaidUsers == {"u2"}
Slots == {1, 2, 3}
RaceSlots == {1, 2}
SeqSlots == {1}

(* A nullable column or optional input: <<>> is null/undefined, <<x>> is x. *)
None == <<>>
Some(x) == <<x>>
Val(o) == o[1]

QuestionCounts == {MinQuestionCount}
TimeLimits == {MinTimeLimit}
OptionTexts == {"a", "b"}
QuestionIndexes == {0, 3}

(* What the question source may answer: the items' answerText, in order.
   An item with an answerText comes with the explanation "why", one without
   comes with none. *)
FullItems == << Some("a"), Some("b"), Some("a"), None, Some("b") >>
ShortItems == << Some("a"), Some("b"), Some("a") >>
QuizResponses == { <<>>, ShortItems, FullItems }

VARIABLES
  papers,       \* ExamPapers: the set of rows
  nextPaperId,  \* the id the next inserted paper gets
  snapshots,    \* ExamQuestionsSnapshot rows
  attempts,     \* ExamAttempts rows
  answers,      \* ExamAnswers rows
  today,        \* the current calendar day
  reqs,         \* per connection: the handler running, its position and locals
  started,      \* the number of requests received so far
  currentAttempt,    \* ExamStore.currentAttempt: null or the attempt's DTO
  timerStatus,       \* ExamStore.timerStatus
  remainingSeconds,  \* ExamStore.remainingSeconds
  timerId,           \* ExamStore.timerId: null or an interval handle
  intervals,    \* the handles of the intervals the window has scheduled
  nextHandle,   \* the handle the next window.setInterval returns
  calls,        \* the submitAttempt calls the store has sent, in order
  ticks,        \* the ticks that found the timer running, since the attempt began
  runs          \* the attempts the store has begun

server == << papers, nextPaperId, snapshots, attempts, answers, today, reqs, started >>

client ==
  << currentAttempt, timerStatus, remainingSeconds, timerId, intervals, nextHandle,
     calls, ticks, runs >>

vars ==
  << papers, nextPaperId, snapshots, attempts, answers, today, reqs, started, client >>

isPaid(u) == u \in PaidUsers

(* A request: the action and its input, the handler's position (pc) and
   locals, its outcome (result), and a record of what the source answered
   (fetched: the number of items, -1 for a non-2xx response), what the
   request has inserted (insSnap rows, the attempt insAttempt) and what it
   has handed to pushExamSummary (pushed). *)
IdleReq ==
  [ op |-> "idle", pc |-> "idle", user |-> "u1", paperId |-> 0, attemptId |-> 0,
    questionIndex |-> 0, selectedOption |-> None, isFlagged |-> None,
    expired |-> FALSE, questionCount |-> 0, timeLimitMinutes |-> 0,
    paper |-> None, attempt |-> None, existing |-> None,
    lsnapshots |-> << >>, lanswers |-> << >>, items |-> << >>,
    updates |-> << >>, includeExplanations |-> FALSE, review |-> << >>,
    fetched |-> None, result |-> "", insSnap |-> 0, insAttempt |-> None,
    score |-> None, limit |-> None, start |-> None, listed |-> << >>,
    windowStart |-> None, summary |-> None, pushed |-> << >>, queried |-> << >> ]

(* The store as constructed (defaultState), in a window with no interval. *)
InitStore ==
  /\ currentAttempt = None
  /\ timerStatus = "idle"
  /\ remainingSeconds = 0
  /\ timerId = None
  /\ intervals = {}
  /\ nextHandle = 1
  /\ calls = << >>
  /\ ticks = 0
  /\ runs = 0

Init ==
  /\ papers = {}
  /\ nextPaperId = 1
  /\ snapshots = << >>
  /\ attempts = << >>
  /\ answers = << >>
  /\ today = 0
  /\ reqs = [ s \in Slots |-> IdleReq ]
  /\ started = 0
  /\ InitStore

Free(s) == reqs[s].op = "idle"
At(s, o, p) == reqs[s].op = o /\ reqs[s].pc = p

(* The handler returns or throws: its locals go, its outcome stays until the
   response is delivered. *)
Finish(r, code) ==
  [ IdleReq EXCEPT !.op = r.op, !.pc = "done", !.user = r.user,
                   !.paperId = r.paperId, !.attemptId = r.attemptId,
                   !.expired = r.expired, !.includeExplanations = r.includeExplanations,
                   !.paper = r.paper, !.attempt = r.attempt, !.review = r.review,
                   !.fetched = r.fetched, !.insSnap = r.insSnap,
                   !.insAttempt = r.insAttempt, !.pushed = r.pushed,
                   !.result = code ]

InFlight(o) == Cardinality({ s \in Slots : reqs[s].op = o /\ reqs[s].pc # "done" })

(***************************************************************************)
(* Storage queries.                                                        *)
(***************************************************************************)
CountPapers(u) == Cardinality({ p \in papers : p.userId = u })

SelectPaper(id, u) ==
  LET found == { p \in papers : p.id = id /\ p.userId = u }
  IN  IF found = {} THEN None ELSE Some(CHOOSE p \in found : TRUE)

(* Dates are whole days, so a date is its own midnight. *)
getStartOfDay(date) == date

CountAttemptsSince(u, start) ==
  Cardinality({ i \in 1..Len(attempts) :
                  attempts[i].userId = u /\ attempts[i].startedAt >= start })

SelectSnapshots(p, u) ==
  SelectSeq(snapshots, LAMBDA r : r.paperId = p /\ r.userId = u)

(* Mutant: the attempt is selected by its id alone. *)
SelectAttemptAnyUser(id, u) ==
  IF id \in 1..Len(attempts) THEN Some(attempts[id]) ELSE None

SelectAttempt(id, u) ==
  IF id \in 1..Len(attempts) /\ attempts[id].userId = u
  THEN Some(attempts[id]) ELSE None

SelectAnswers(a, u) ==
  SelectSeq(answers, LAMBDA r : r.attemptId = a /\ r.userId = u)

SelectAnswer(a, u, q) ==
  LET found == SelectSeq(answers,
                 LAMBDA r : r.attemptId = a /\ r.userId = u /\ r.questionIndex = q)
  IN  IF found = << >> THEN None ELSE Some(found[1])

(***************************************************************************)
(* Quota policy.                                                           *)
(***************************************************************************)
requirePro(u) == IF isPaid(u) THEN "OK" ELSE "PAYMENT_REQUIRED"

(* Mutant: the limit is compared with > instead of >=. *)
enforcePaperLimitAbove(u) ==
  IF CountPapers(u) > maxPapers THEN requirePro(u) ELSE "OK"

enforcePaperLimit(u) ==
  IF CountPapers(u) >= maxPapers THEN requirePro(u) ELSE "OK"

(* Mutant: the count is not limited to the attempts started today. *)
enforceDailyAttemptLimitEver(u) ==
  IF CountAttemptsSince(u, 0) >= maxAttemptsPerDay THEN requirePro(u) ELSE "OK"

enforceDailyAttemptLimit(u) ==
  IF CountAttemptsSince(u, getStartOfDay(today)) >= maxAttemptsPerDay
  THEN requirePro(u) ELSE "OK"

(* a ?? b *)
Coalesce(a, b) == IF a # None THEN a ELSE b

Max(a, b) == IF a >= b THEN a ELSE b

(***************************************************************************)
(* Numbers are IEEE 754 doubles.  A positive double is written here as its *)
(* bits, most significant first, and the count of those bits that follow   *)
(* the binary point.  A quotient or product keeps SignificantBits bits,    *)
(* rounded to the nearest, a tie to the even one.                          *)
(***************************************************************************)
SignificantBits == 53

StripZeros(bits) ==
  LET ones == { i \in 1..Len(bits) : bits[i] = 1 }
  IN  IF ones = {} THEN << >>
      ELSE SubSeq(bits, CHOOSE i \in ones : \A j \in ones : i <= j, Len(bits))

RECURSIVE Increment(_)
Increment(bits) ==
  IF bits = << >> THEN << 1 >>
  ELSE IF bits[Len(bits)] = 0 THEN [ bits EXCEPT ![Len(bits)] = 1 ]
  ELSE Increment(SubSeq(bits, 1, Len(bits) - 1)) \o << 0 >>

(* The double nearest to bits / 2^frac; sticky: the exact value lies above. *)
RoundDouble(bits, frac, sticky) ==
  LET b == StripZeros(bits)
      d == Len(b) - SignificantBits
      kept == SubSeq(b, 1, SignificantBits)
      below == sticky \/ \E i \in (SignificantBits + 2)..Len(b) : b[i] = 1
      up == b[SignificantBits + 1] = 1 /\ (below \/ kept[SignificantBits] = 1)
  IN  IF d <= 0 THEN [ bits |-> b, frac |-> frac ]
      ELSE [ bits |-> IF up THEN Increment(kept) ELSE kept, frac |-> frac - d ]

(* The smallest p with c * 2^p >= n. *)
RECURSIVE LeadShift(_, _)
LeadShift(c, n) == IF c >= n THEN 0 ELSE 1 + LeadShift(2 * c, n)

(* Long division of r by n, r < n: what is left after k bits (eight bits a
   step while that many remain), and the first k bits after the binary point. *)
RECURSIVE DivRem(_, _, _)
DivRem(r, n, k) ==
  IF k = 0 THEN r
  ELSE IF k >= 8 THEN DivRem((256 * r) % n, n, k - 8)
  ELSE DivRem((2 * r) % n, n, k - 1)

DivBits(r, n, k) == [ i \in 1..k |-> (2 * DivRem(r, n, i - 1)) \div n ]

RECURSIVE ToBits(_)
ToBits(x) == IF x = 0 THEN << >> ELSE ToBits(x \div 2) \o << x % 2 >>

(* c / n for whole c > 0 and n > 0. *)
Quotient(c, n) ==
  LET k == LeadShift(c, n) + SignificantBits
  IN  RoundDouble(ToBits(c \div n) \o DivBits(c % n, n, k), k, DivRem(c % n, n, k) # 0)

RECURSIVE FromBits(_)
FromBits(bits) ==
  IF bits = << >> THEN 0
  ELSE 2 * FromBits(SubSeq(bits, 1, Len(bits) - 1)) + bits[Len(bits)]

(* Long multiplication by a small whole m: the carry into bit i, taken over
   up to eight bits a step. *)
RECURSIVE Carry(_, _, _)
Carry(bits, m, i) ==
  LET w == IF Len(bits) - i >= 8 THEN 8 ELSE Len(bits) - i
  IN  IF w = 0 THEN 0
      ELSE (m * FromBits(SubSeq(bits, i + 1, i + w)) + Carry(bits, m, i + w)) \div (2 ^ w)

TimesBits(bits, m) ==
  ToBits(Carry(bits, m, 0)) \o [ i \in 1..Len(bits) |-> (m * bits[i] + Carry(bits, m, i)) % 2 ]

(* x * m *)
Product(x, m) == RoundDouble(TimesBits(x.bits, m), x.frac, FALSE)

(* Math.round(x): floor(x + 0.5), the whole part plus the first bit after
   the point. *)
MathRound(x) ==
  LET whole == Len(x.bits) - x.frac
  IN  IF whole < 0 THEN 0
      ELSE FromBits(SubSeq(x.bits, 1, whole))
             + (IF x.frac > 0 THEN x.bits[whole + 1] ELSE 0)

(***************************************************************************)
(* buildExamDashboardSummary and pushSummary.                              *)
(***************************************************************************)
weekStart == getStartOfDay(today - WeekDays)

RECURSIVE Sum(_)
Sum(values) == IF values = << >> THEN 0 ELSE Head(values) + Sum(Tail(values))

RECURSIVE Greatest(_)
Greatest(values) ==
  IF Len(values) = 1 THEN Head(values) ELSE Max(Head(values), Greatest(Tail(values)))

(* Math.round(sum / length), the values whole and not negative. *)
RoundMean(values) ==
  IF Sum(values) = 0 THEN 0 ELSE MathRound(Quotient(Sum(values), Len(values)))

(* Number(attempt.percent ?? 0) *)
PercentOf(attempt) == IF attempt.percent = None THEN 0 ELSE Val(attempt.percent)

(* The queries of buildExamDashboardSummary in the order it awaits them: the
   count of papers, the count of attempts, the count of attempts since
   weekStart, the percents of the attempts since weekStart, the greatest
   startedAt. *)
SummaryQueries == 5

QueryResult(k, u, since) ==
  LET mine == SelectSeq(attempts, LAMBDA r : r.userId = u)
      attemptsWeek == SelectSeq(mine, LAMBDA r : r.startedAt >= since)
  IN  CASE k = 1 -> CountPapers(u)
        [] k = 2 -> Len(mine)
        [] k = 3 -> Len(attemptsWeek)
        [] k = 4 -> [ i \in 1..Len(attemptsWeek) |-> PercentOf(attemptsWeek[i]) ]
        [] k = 5 -> IF mine = << >> THEN None
                    ELSE Some(Greatest([ i \in 1..Len(mine) |-> mine[i].startedAt ]))

(* The summary returned, from what the queries gave. *)
Summarize(generatedAt, results) ==
  LET percents == results[4]
      lastAttemptAt == results[5]
  IN  [ generatedAt |-> generatedAt,
        totals |-> [ papers |-> results[1], attempts |-> results[2],
                     attemptsThisWeek |-> results[3] ],
        performance |->
          [ avgPercentThisWeek |-> IF Len(percents) # 0 THEN RoundMean(percents) ELSE 0,
            bestPercentThisWeek |-> IF Len(percents) # 0 THEN Greatest(percents) ELSE 0 ],
        activity |-> [ lastAttemptAt |-> lastAttemptAt,
                       lastActivityAt |-> Val(Coalesce(lastAttemptAt, Some(generatedAt))) ] ]

(* buildExamDashboardSummary inside pushSummary: its queries are taken as
   one read of the store. *)
buildExamDashboardSummary(u) ==
  Summarize(today, [ k \in 1..SummaryQueries |-> QueryResult(k, u, weekStart) ])

(* The request r posts the payload to the sink: the post is delivered, or
   it throws. *)
postWebhook(r, payload, delivered) ==
  [ r EXCEPT !.pushed = Append(@, payload @@ [ delivered |-> delivered ]),
             !.result = IF delivered THEN @ ELSE "INTERNAL_SERVER_ERROR" ]

Payload(params) ==
  [ userId |-> params.userId, eventType |-> params.eventType, summary |-> params.summary ]

(* Mutant: what the post throws is not caught. *)
pushExamSummaryUncaught(r, params, delivered) ==
  postWebhook(r, Payload(params), delivered)

(* try { await postWebhook(...) } catch: what the post throws goes no
   further. *)
pushExamSummary(r, params, delivered) ==
  [ postWebhook(r, Payload(params), delivered) EXCEPT !.result = r.result ]

(* Mutant: the summary is pushed twice. *)
pushSummaryTwice(r, eventType, delivered) ==
  LET params == [ userId |-> r.user, eventType |-> eventType,
                  summary |-> buildExamDashboardSummary(r.user) ]
  IN  pushExamSummary(pushExamSummary(r, params, delivered), params, delivered)

pushSummary(r, eventType, delivered) ==
  pushExamSummary(r, [ userId |-> r.user, eventType |-> eventType,
                       summary |-> buildExamDashboardSummary(r.user) ], delivered)

(* The handler returns its value, unless a call it awaited has thrown. *)
Return(r) == Finish(r, IF r.result = "" THEN "OK" ELSE r.result)

(* buildExamDashboardSummary called on its own: generatedAt, weekStart and
   the first query. *)
BuildSummary(s, u) ==
  /\ Free(s)
  /\ reqs' = [ reqs EXCEPT ![s] =
       [ IdleReq EXCEPT !.op = "buildExamDashboardSummary", !.pc = "bs_query", !.user = u,
                        !.start = Some(today), !.windowStart = Some(weekStart),
                        !.queried = << QueryResult(1, u, weekStart) >> ] ]
  /\ UNCHANGED << papers, nextPaperId, snapshots, attempts, answers, today, client >>

(* The next query; after the last one the summary is returned. *)
SummaryQuery(s) ==
  /\ At(s, "buildExamDashboardSummary", "bs_query")
  /\ LET r == reqs[s]
         results == Append(r.queried,
                      QueryResult(Len(r.queried) + 1, r.user, Val(r.windowStart)))
     IN  reqs' = [ reqs EXCEPT ![s] =
           IF Len(results) < SummaryQueries THEN [ r EXCEPT !.queried = results ]
           ELSE [ IdleReq EXCEPT !.op = r.op, !.pc = "done", !.user = r.user,
                                 !.summary = Some(Summarize(Val(r.start), results)),
                                 !.result = "OK" ] ]
  /\ UNCHANGED << papers, nextPaperId, snapshots, attempts, answers, today, started, client >>

(***************************************************************************)
(* createExamPaper, deleteExamPaper.                                       *)
(***************************************************************************)
CreatePaperLimit(s, u, qc, tl) ==
  /\ Free(s)
  /\ LET r == [ IdleReq EXCEPT !.op = "createExamPaper", !.user = u,
                               !.questionCount = qc, !.timeLimitMinutes = tl ]
         code == enforcePaperLimit(r.user)
     IN  reqs' = [ reqs EXCEPT ![s] =
           IF code = "OK" THEN [ r EXCEPT !.pc = "cp_insert" ] ELSE Finish(r, code) ]
  /\ UNCHANGED << papers, nextPaperId, snapshots, attempts, answers, today, client >>

NewPaperRow(id, u, qc, tl) ==
  [ id |-> id, userId |-> u, questionCount |-> qc, timeLimitMinutes |-> tl ]

CreatePaperInsert(s) ==
  /\ At(s, "createExamPaper", "cp_insert")
  /\ LET r == reqs[s]
         row == NewPaperRow(nextPaperId, r.user, r.questionCount, r.timeLimitMinutes)
     IN  /\ papers' = papers \cup { row }
         /\ nextPaperId' = nextPaperId + 1
         /\ reqs' = [ reqs EXCEPT ![s] =
              [ r EXCEPT !.paperId = row.id, !.paper = Some(row), !.pc = "cp_push" ] ]
  /\ UNCHANGED << snapshots, attempts, answers, today, started, client >>

CreatePaperPush(s, delivered) ==
  /\ At(s, "createExamPaper", "cp_push")
  /\ LET r == reqs[s]
     IN  reqs' = [ reqs EXCEPT ![s] = Return(pushSummary(r, "paper.created", delivered)) ]
  /\ UNCHANGED << papers, nextPaperId, snapshots, attempts, answers, today, started, client >>

DeletePaper(s, u, id) ==
  /\ Free(s)
  /\ LET found == SelectPaper(id, u)
         r == [ IdleReq EXCEPT !.op = "deleteExamPaper", !.user = u, !.paperId = id ]
     IN  IF found = None
         THEN /\ reqs' = [ reqs EXCEPT ![s] = Finish(r, "NOT_FOUND") ]
              /\ papers' = papers
         ELSE /\ papers' = papers \ { Val(found) }
              /\ reqs' = [ reqs EXCEPT ![s] =
                   [ r EXCEPT !.paper = found, !.pc = "dp_push" ] ]
  /\ UNCHANGED << nextPaperId, snapshots, attempts, answers, today, client >>

DeletePaperPush(s, delivered) ==
  /\ At(s, "deleteExamPaper", "dp_push")
  /\ LET r == reqs[s]
     IN  reqs' = [ reqs EXCEPT ![s] = Return(pushSummary(r, "paper.deleted", delivered)) ]
  /\ UNCHANGED << papers, nextPaperId, snapshots, attempts, answers, today, started, client >>

(***************************************************************************)
(* startAttempt and ensureSnapshot.                                        *)
(***************************************************************************)
(* token: whether the request's locals hold a session token. *)
StartLimit(s, u, id, token) ==
  /\ Free(s)
  /\ LET r == [ IdleReq EXCEPT !.op = "startAttempt", !.user = u, !.paperId = id ]
         code == enforceDailyAttemptLimit(r.user)
     IN  reqs' = [ reqs EXCEPT ![s] =
           IF code # "OK" THEN Finish(r, code)
           ELSE IF ~token THEN Finish(r, "UNAUTHORIZED")
           ELSE [ r EXCEPT !.pc = "sa_paper" ] ]
  /\ UNCHANGED << papers, nextPaperId, snapshots, attempts, answers, today, client >>

StartPaper(s) ==
  /\ At(s, "startAttempt", "sa_paper")
  /\ LET r == reqs[s]
         found == SelectPaper(r.paperId, r.user)
     IN  reqs' = [ reqs EXCEPT ![s] =
           IF found = None THEN Finish(r, "NOT_FOUND")
           ELSE [ r EXCEPT !.paper = found, !.pc = "es_existing" ] ]
  /\ UNCHANGED << papers, nextPaperId, snapshots, attempts, answers, today, started, client >>

(* Mutant: the snapshot is taken to exist without a look at the rows read. *)
HasExistingAlways(existing) == TRUE

HasExisting(existing) == Len(existing) > 0

EnsureExisting(s) ==
  /\ At(s, "startAttempt", "es_existing")
  /\ LET r == reqs[s]
         existing == SelectSnapshots(r.paperId, r.user)
     IN  reqs' = [ reqs EXCEPT ![s] =
           IF HasExisting(existing) THEN [ r EXCEPT !.pc = "sa_insert" ]
           ELSE [ r EXCEPT !.pc = "es_paper" ] ]
  /\ UNCHANGED << papers, nextPaperId, snapshots, attempts, answers, today, started, client >>

EnsurePaper(s) ==
  /\ At(s, "startAttempt", "es_paper")
  /\ LET r == reqs[s]
         found == SelectPaper(r.paperId, r.user)
     IN  reqs' = [ reqs EXCEPT ![s] =
           IF found = None THEN Finish(r, "NOT_FOUND")
           ELSE [ r EXCEPT !.questionCount = Val(found).questionCount,
                           !.pc = "es_fetch" ] ]
  /\ UNCHANGED << papers, nextPaperId, snapshots, attempts, answers, today, started, client >>

(* fetchJson: the code of the error thrown on a non-2xx response. *)
FetchFailedCode == "BAD_REQUEST"

(* Mutant: the empty answer of the question source is not rejected. *)
NoQuestionsUnchecked(sanitized) == FALSE

NoQuestions(sanitized) == Len(sanitized) = 0

(* question.explanation of the item with this answerText. *)
ItemExplanation(answerText) == IF answerText = None THEN None ELSE Some("why")

(* questionJson keeps answerText ?? null as correctAnswer and explanation ??
   null as explanation; JSON.parse gives them back unchanged. *)
sanitize(items, u, p) ==
  [ i \in 1..Len(items) |->
      [ userId |-> u, paperId |-> p, questionIndex |-> i - 1,
        correctAnswer |-> items[i],
        explanation |-> Coalesce(ItemExplanation(items[i]), None) ] ]

EnsureFetchFailed(s) ==
  /\ At(s, "startAttempt", "es_fetch")
  /\ reqs' = [ reqs EXCEPT ![s] =
       Finish([ reqs[s] EXCEPT !.fetched = Some(-1) ], FetchFailedCode) ]
  /\ UNCHANGED << papers, nextPaperId, snapshots, attempts, answers, today, started, client >>

EnsureFetch(s, items) ==
  /\ At(s, "startAttempt", "es_fetch")
  /\ Len(items) <= reqs[s].questionCount
  /\ LET r == [ reqs[s] EXCEPT !.fetched = Some(Len(items)) ]
         sanitized == sanitize(items, r.user, r.paperId)
     IN  reqs' = [ reqs EXCEPT ![s] =
           IF NoQuestions(sanitized) THEN Finish(r, "BAD_REQUEST")
           ELSE [ r EXCEPT !.items = sanitized, !.pc = "es_insert" ] ]
  /\ UNCHANGED << papers, nextPaperId, snapshots, attempts, answers, today, started, client >>

(* db.insert(ExamQuestionsSnapshot).values(sanitized): one batch. *)
InsertSnapshots(rows) == snapshots \o rows

(* The rows selected again after the insert are dropped by startAttempt. *)
EnsureInsert(s) ==
  /\ At(s, "startAttempt", "es_insert")
  /\ LET r == reqs[s]
     IN  /\ snapshots' = InsertSnapshots(r.items)
         /\ reqs' = [ reqs EXCEPT ![s] =
              [ r EXCEPT !.insSnap = Len(r.items), !.items = << >>,
                         !.pc = "sa_insert" ] ]
  /\ UNCHANGED << papers, nextPaperId, attempts, answers, today, started, client >>

NewAttemptRow(id, u, paper) ==
  [ id |-> id, userId |-> u, paperId |-> paper.id, startedAt |-> today,
    submittedAt |-> None, status |-> "in_progress",
    timeLimitMinutes |-> paper.timeLimitMinutes,
    totalQuestions |-> paper.questionCount,
    score |-> None, correctCount |-> None, wrongCount |-> None,
    unattemptedCount |-> None, percent |-> None ]

StartInsert(s) ==
  /\ At(s, "startAttempt", "sa_insert")
  /\ LET r == reqs[s]
         row == NewAttemptRow(Len(attempts) + 1, r.user, Val(r.paper))
     IN  /\ attempts' = Append(attempts, row)
         /\ reqs' = [ reqs EXCEPT ![s] =
              Finish([ r EXCEPT !.attemptId = row.id, !.insAttempt = Some(row.id) ],
                     "OK") ]
  /\ UNCHANGED << papers, nextPaperId, snapshots, answers, today, started, client >>

(***************************************************************************)
(* saveAnswer.                                                             *)
(***************************************************************************)
WillInsert(s) ==
  /\ reqs[s].op = "saveAnswer"
  /\ \/ /\ reqs[s].pc = "sv_existing"
        /\ SelectAnswer(reqs[s].attemptId, reqs[s].user, reqs[s].questionIndex) = None
     \/ /\ reqs[s].pc = "sv_write"
        /\ reqs[s].existing = None

(* Mutant: only an attempt in progress takes answers. *)
SaveAttemptInProgress(s, u, a, q, opt, flag) ==
  /\ Free(s)
  /\ LET r == [ IdleReq EXCEPT !.op = "saveAnswer", !.user = u, !.attemptId = a,
                               !.questionIndex = q, !.selectedOption = opt,
                               !.isFlagged = flag ]
         found == SelectAttempt(r.attemptId, r.user)
     IN  reqs' = [ reqs EXCEPT ![s] =
           IF found = None THEN Finish(r, "NOT_FOUND")
           ELSE IF Val(found).status # "in_progress" THEN Finish(r, "BAD_REQUEST")
           ELSE [ r EXCEPT !.attempt = found, !.pc = "sv_existing" ] ]
  /\ UNCHANGED << papers, nextPaperId, snapshots, attempts, answers, today, client >>

SaveAttempt(s, u, a, q, opt, flag) ==
  /\ Free(s)
  /\ LET r == [ IdleReq EXCEPT !.op = "saveAnswer", !.user = u, !.attemptId = a,
                               !.questionIndex = q, !.selectedOption = opt,
                               !.isFlagged = flag ]
         found == SelectAttempt(r.attemptId, r.user)
     IN  reqs' = [ reqs EXCEPT ![s] =
           IF found = None THEN Finish(r, "NOT_FOUND")
           ELSE [ r EXCEPT !.attempt = found, !.pc = "sv_existing" ] ]
  /\ UNCHANGED << papers, nextPaperId, snapshots, attempts, answers, today, client >>

SaveExisting(s) ==
  /\ At(s, "saveAnswer", "sv_existing")
  /\ LET r == reqs[s]
     IN  reqs' = [ reqs EXCEPT ![s] =
           [ r EXCEPT !.existing = SelectAnswer(r.attemptId, r.user, r.questionIndex),
                      !.pc = "sv_write" ] ]
  /\ UNCHANGED << papers, nextPaperId, snapshots, attempts, answers, today, started, client >>


UpdatedAnswerRow(row, existing, opt, flag) ==
  [ row EXCEPT !.selectedOption = Coalesce(opt, existing.selectedOption),
               !.isFlagged = Val(Coalesce(flag, Some(existing.isFlagged))) ]

NewAnswerRow(id, a, u, q, opt, flag) ==
  [ id |-> id, attemptId |-> a, userId |-> u, questionIndex |-> q,
    selectedOption |-> Coalesce(opt, None),
    isFlagged |-> Val(Coalesce(flag, Some(FALSE))), isCorrect |-> None ]

SaveWrite(s) ==
  /\ At(s, "saveAnswer", "sv_write")
  /\ LET r == reqs[s]
     IN  IF r.existing # None
         THEN LET id == Val(r.existing).id
              IN  answers' = [ answers EXCEPT ![id] =
                    UpdatedAnswerRow(@, Val(r.existing), r.selectedOption, r.isFlagged) ]
         ELSE answers' = Append(answers,
                NewAnswerRow(Len(answers) + 1, r.attemptId, r.user, r.questionIndex,
                             r.selectedOption, r.isFlagged))
  /\ reqs' = [ reqs EXCEPT ![s] = Finish(reqs[s], "OK") ]
  /\ UNCHANGED << papers, nextPaperId, snapshots, attempts, today, started, client >>

(***************************************************************************)
(* calculateScore.                                                         *)
(***************************************************************************)
(* String(x): null prints as "null". *)
String(o) == IF o = None THEN "null" ELSE Val(o)

(* Mutant: only null counts as no selection. *)
TruthyNotNull(o) == o # None

(* JavaScript truthiness of a nullable string. *)
Truthy(o) == o # None /\ Val(o) # ""

(* answerMap.get(q) ?? null, the map filled in row order: the last row wins. *)
AnswerMapGet(as, q) ==
  LET hits == { i \in 1..Len(as) : as[i].questionIndex = q }
  IN  IF hits = {} THEN None
      ELSE Coalesce(as[CHOOSE i \in hits : \A j \in hits : j <= i].selectedOption, None)

(* Mutant: the ratio is not taken before the scaling. *)
RoundPercentUndivided(correct, total) == correct * 100

(* Math.round((correct / total) * 100) *)
RoundPercent(correct, total) ==
  IF correct = 0 THEN 0 ELSE MathRound(Product(Quotient(correct, total), 100))

calculateScore(as, snaps) ==
  LET attempted == { i \in 1..Len(snaps) : Truthy(AnswerMapGet(as, snaps[i].questionIndex)) }
      right == { i \in attempted :
                   String(AnswerMapGet(as, snaps[i].questionIndex))
                     = String(snaps[i].correctAnswer) }
      correct == Cardinality(right)
      wrong == Cardinality(attempted \ right)
      total == Len(snaps)
  IN  [ correct |-> correct, wrong |-> wrong,
        unattempted |-> Max(0, total - correct - wrong), total |-> total,
        percent |-> IF total > 0 THEN RoundPercent(correct, total) ELSE 0 ]

(* calculateScore called on its own: the request holds the arguments
   (answers, snapshots) and then the value returned. *)
CalculateScore(s) ==
  /\ At(s, "calculateScore", "call")
  /\ LET r == reqs[s]
     IN  reqs' = [ reqs EXCEPT ![s] =
           [ r EXCEPT !.score = Some(calculateScore(r.lanswers, r.lsnapshots)),
                      !.pc = "done" ] ]
  /\ UNCHANGED << papers, nextPaperId, snapshots, attempts, answers, today, started, client >>

(***************************************************************************)
(* submitAttempt.                                                          *)
(***************************************************************************)
SubmitAttemptRow(s, u, a, expired) ==
  /\ Free(s)
  /\ LET r == [ IdleReq EXCEPT !.op = "submitAttempt", !.user = u, !.attemptId = a,
                               !.expired = expired ]
         found == SelectAttempt(r.attemptId, r.user)
     IN  reqs' = [ reqs EXCEPT ![s] =
           IF found = None THEN Finish(r, "NOT_FOUND")
           ELSE [ r EXCEPT !.attempt = found, !.pc = "sb_snapshots" ] ]
  /\ UNCHANGED << papers, nextPaperId, snapshots, attempts, answers, today, client >>

SubmitSnapshots(s) ==
  /\ At(s, "submitAttempt", "sb_snapshots")
  /\ LET r == reqs[s]
     IN  reqs' = [ reqs EXCEPT ![s] =
           [ r EXCEPT !.lsnapshots = SelectSnapshots(Val(r.attempt).paperId, r.user),
                      !.pc = "sb_answers" ] ]
  /\ UNCHANGED << papers, nextPaperId, snapshots, attempts, answers, today, started, client >>

SubmitAnswers(s) ==
  /\ At(s, "submitAttempt", "sb_answers")
  /\ LET r == reqs[s]
     IN  reqs' = [ reqs EXCEPT ![s] =
           [ r EXCEPT !.lanswers = SelectAnswers(Val(r.attempt).id, r.user),
                      !.pc = "sb_update" ] ]
  /\ UNCHANGED << papers, nextPaperId, snapshots, attempts, answers, today, started, client >>

SubmitStatus(expired) == IF expired THEN "expired" ELSE "submitted"

(* Mutant: a resubmission leaves the stored score as it is. *)
SubmittedRowOnce(row, status, score) ==
  IF row.status # "in_progress" THEN [ row EXCEPT !.status = status ]
  ELSE [ row EXCEPT !.submittedAt = Some(today), !.status = status,
                    !.score = Some(score.correct), !.correctCount = Some(score.correct),
                    !.wrongCount = Some(score.wrong),
                    !.unattemptedCount = Some(score.unattempted),
                    !.percent = Some(score.percent) ]

(* Mutant: the update forgets the percent column. *)
SubmittedRowNoPercent(row, status, score) ==
  [ row EXCEPT !.submittedAt = Some(today), !.status = status,
               !.score = Some(score.correct), !.correctCount = Some(score.correct),
               !.wrongCount = Some(score.wrong),
               !.unattemptedCount = Some(score.unattempted) ]

SubmittedRow(row, status, score) ==
  [ row EXCEPT !.submittedAt = Some(today), !.status = status,
               !.score = Some(score.correct), !.correctCount = Some(score.correct),
               !.wrongCount = Some(score.wrong),
               !.unattemptedCount = Some(score.unattempted),
               !.percent = Some(score.percent) ]

(* snapshots.find(...): the first row with that questionIndex, if any. *)
FindSnapshot(snaps, q) ==
  LET hits == SelectSeq(snaps, LAMBDA x : x.questionIndex = q)
  IN  IF hits = << >> THEN None ELSE Some(hits[1])

(* Mutant: an answer is judged the way calculateScore counts it. *)
answerIsCorrectAsScored(answer, snaps) ==
  LET snapshot == FindSnapshot(snaps, answer.questionIndex)
      correctAnswer == IF snapshot = None THEN None ELSE Val(snapshot).correctAnswer
  IN  IF Truthy(answer.selectedOption)
      THEN Some(String(answer.selectedOption) = String(correctAnswer))
      ELSE None

answerIsCorrect(answer, snaps) ==
  LET snapshot == FindSnapshot(snaps, answer.questionIndex)
      correctAnswer == IF snapshot = None THEN None ELSE Val(snapshot).correctAnswer
  IN  IF Truthy(correctAnswer) /\ Truthy(answer.selectedOption)
      THEN Some(String(answer.selectedOption) = String(correctAnswer))
      ELSE None

answerUpdates(as, snaps) ==
  [ i \in 1..Len(as) |-> [ id |-> as[i].id, isCorrect |-> answerIsCorrect(as[i], snaps) ] ]

SubmitUpdate(s) ==
  /\ At(s, "submitAttempt", "sb_update")
  /\ LET r == reqs[s]
         score == calculateScore(r.lanswers, r.lsnapshots)
         id == Val(r.attempt).id
     IN  /\ attempts' = [ attempts EXCEPT ![id] =
              SubmittedRow(@, SubmitStatus(r.expired), score) ]
         /\ reqs' = [ reqs EXCEPT ![s] =
              [ r EXCEPT !.updates = answerUpdates(r.lanswers, r.lsnapshots),
                         !.pc = "sb_backfill" ] ]
  /\ UNCHANGED << papers, nextPaperId, snapshots, answers, today, started, client >>

SubmitBackfill(s) ==
  /\ At(s, "submitAttempt", "sb_backfill")
  /\ reqs[s].updates # << >>
  /\ LET r == reqs[s]
         update == Head(r.updates)
     IN  /\ answers' = [ answers EXCEPT ![update.id].isCorrect = update.isCorrect ]
         /\ reqs' = [ reqs EXCEPT ![s] = [ r EXCEPT !.updates = Tail(r.updates) ] ]
  /\ UNCHANGED << papers, nextPaperId, snapshots, attempts, today, started, client >>

(* notifyParent, which like the push never fails the caller, then
   pushSummary: the updated row is always returned. *)
SubmitNotify(s, delivered) ==
  /\ At(s, "submitAttempt", "sb_backfill")
  /\ reqs[s].updates = << >>
  /\ LET r == reqs[s]
         eventType == IF SubmitStatus(r.expired) = "expired"
                      THEN "exam.expired" ELSE "exam.submitted"
     IN  reqs' = [ reqs EXCEPT ![s] = Return(pushSummary(r, eventType, delivered)) ]
  /\ UNCHANGED << papers, nextPaperId, snapshots, attempts, answers, today, started, client >>

(***************************************************************************)
(* getAttemptReview.                                                       *)
(***************************************************************************)
(* orderBy(questionIndex): rows of equal index keep their order. *)
RECURSIVE ByQuestionIndex(_)
ByQuestionIndex(rows) ==
  IF rows = << >> THEN << >>
  ELSE LET i == CHOOSE i \in 1..Len(rows) :
                  \A j \in 1..Len(rows) :
                    \/ rows[i].questionIndex < rows[j].questionIndex
                    \/ rows[i].questionIndex = rows[j].questionIndex /\ i <= j
       IN  << rows[i] >>
             \o ByQuestionIndex(SubSeq(rows, 1, i - 1) \o SubSeq(rows, i + 1, Len(rows)))

(* JSON.parse(snapshot.questionJson) *)
ReviewQuestion(snapshot) ==
  [ correctAnswer |-> snapshot.correctAnswer, explanation |-> snapshot.explanation ]

(* answerMap.get(questionIndex): the last row set for that index. *)
AnswerRowOf(as, q) ==
  LET hits == { i \in 1..Len(as) : as[i].questionIndex = q }
  IN  IF hits = {} THEN None ELSE Some(as[CHOOSE i \in hits : \A j \in hits : j <= i])

ReviewItems(snaps, as) ==
  [ i \in 1..Len(snaps) |->
      LET answer == AnswerRowOf(as, snaps[i].questionIndex)
      IN  [ questionIndex |-> snaps[i].questionIndex,
            question |-> ReviewQuestion(snaps[i]),
            selectedOption |-> IF answer = None THEN None ELSE Val(answer).selectedOption,
            isCorrect |-> IF answer = None THEN None ELSE Val(answer).isCorrect ] ]

(* The three selects are taken as one read of the store. *)
AttemptReview(s, u, a, includeExplanations) ==
  /\ Free(s)
  /\ LET r == [ IdleReq EXCEPT !.op = "getAttemptReview", !.user = u, !.attemptId = a,
                               !.includeExplanations = includeExplanations ]
         found == SelectAttempt(a, u)
     IN  reqs' = [ reqs EXCEPT ![s] =
           IF includeExplanations /\ ~isPaid(u) THEN Finish(r, requirePro(u))
           ELSE IF found = None THEN Finish(r, "NOT_FOUND")
           ELSE Finish([ r EXCEPT
                  !.attempt = found,
                  !.review = ReviewItems(
                               ByQuestionIndex(SelectSnapshots(Val(found).paperId, u)),
                               SelectAnswers(Val(found).id, u)) ], "OK") ]
  /\ UNCHANGED << papers, nextPaperId, snapshots, attempts, answers, today, client >>

(***************************************************************************)
(* listExamPapers, getExamPaper, getAttempt, listAttempts.                 *)
(***************************************************************************)
(* orderBy(desc(updatedAt), desc(createdAt), desc(id)): a paper is never
   updated, so the latest insert comes first. *)
RECURSIVE NewestPapersFirst(_)
NewestPapersFirst(rows) ==
  IF rows = {} THEN << >>
  ELSE LET newest == CHOOSE p \in rows : \A q \in rows : q.id <= p.id
       IN  << newest >> \o NewestPapersFirst(rows \ { newest })

ListPapers(s, u) ==
  /\ Free(s)
  /\ reqs' = [ reqs EXCEPT ![s] =
       [ IdleReq EXCEPT !.op = "listExamPapers", !.pc = "done", !.user = u,
                        !.listed = NewestPapersFirst({ p \in papers : p.userId = u }),
                        !.result = "OK" ] ]
  /\ UNCHANGED << papers, nextPaperId, snapshots, attempts, answers, today, client >>

GetPaper(s, u, id) ==
  /\ Free(s)
  /\ LET found == SelectPaper(id, u)
         r == [ IdleReq EXCEPT !.op = "getExamPaper", !.user = u, !.paperId = id ]
     IN  reqs' = [ reqs EXCEPT ![s] =
           IF found = None THEN Finish(r, "NOT_FOUND")
           ELSE Finish([ r EXCEPT !.paper = found ], "OK") ]
  /\ UNCHANGED << papers, nextPaperId, snapshots, attempts, answers, today, client >>

GetAttemptRow(s, u, a) ==
  /\ Free(s)
  /\ LET found == SelectAttempt(a, u)
         r == [ IdleReq EXCEPT !.op = "getAttempt", !.user = u, !.attemptId = a ]
     IN  reqs' = [ reqs EXCEPT ![s] =
           IF found = None THEN Finish(r, "NOT_FOUND")
           ELSE [ r EXCEPT !.attempt = found, !.pc = "ga_paper" ] ]
  /\ UNCHANGED << papers, nextPaperId, snapshots, attempts, answers, today, client >>

(* The paper may be gone: it is then returned as undefined. *)
GetAttemptPaper(s) ==
  /\ At(s, "getAttempt", "ga_paper")
  /\ LET r == reqs[s]
     IN  reqs' = [ reqs EXCEPT ![s] =
           Finish([ r EXCEPT !.paper = SelectPaper(Val(r.attempt).paperId, r.user) ],
                  "OK") ]
  /\ UNCHANGED << papers, nextPaperId, snapshots, attempts, answers, today, started, client >>

freeWindowStart == getStartOfDay(today - (historyDays - 1))

(* attempts.sort((a, b) => b.startedAt - a.startedAt): the latest start
   first, equal starts in the order read. *)
RECURSIVE NewestFirst(_)
NewestFirst(rows) ==
  IF rows = << >> THEN << >>
  ELSE LET first == CHOOSE i \in 1..Len(rows) :
                      \A j \in 1..Len(rows) :
                        \/ rows[j].startedAt < rows[i].startedAt
                        \/ rows[j].startedAt = rows[i].startedAt /\ i <= j
       IN  << rows[first] >>
             \o NewestFirst(SubSeq(rows, 1, first - 1) \o SubSeq(rows, first + 1, Len(rows)))

Slice(rows, limit) == SubSeq(rows, 1, IF limit < Len(rows) THEN limit ELSE Len(rows))

(* Mutant: the start asked for is used for every user. *)
WindowStartAsAsked(u, start) == Coalesce(start, None)

(* user.isPaid ? input?.start ?? null : freeWindowStart *)
WindowStart(u, start) ==
  IF isPaid(u) THEN Coalesce(start, None) ELSE Some(freeWindowStart)

(* A Date is truthy, so only a missing start selects without a lower bound. *)
ListAttempts(s, u, limit, start) ==
  /\ Free(s)
  /\ LET lim == Val(Coalesce(limit, Some(DefaultLimit)))
         from == WindowStart(u, start)
         rows == IF from # None
                 THEN SelectSeq(attempts,
                        LAMBDA r : r.userId = u /\ r.startedAt >= Val(from))
                 ELSE SelectSeq(attempts, LAMBDA r : r.userId = u)
     IN  reqs' = [ reqs EXCEPT ![s] =
           [ IdleReq EXCEPT !.op = "listAttempts", !.pc = "done", !.user = u,
                            !.limit = limit, !.start = start,
                            !.listed = Slice(NewestFirst(rows), lim),
                            !.windowStart = from, !.result = "OK" ] ]
  /\ UNCHANGED << papers, nextPaperId, snapshots, attempts, answers, today, client >>

(***************************************************************************)
(* Midnight passes: new Date() falls on the next calendar day.             *)
(***************************************************************************)
NextDay(maxDay) ==
  /\ today < maxDay
  /\ today' = today + 1
  /\ UNCHANGED << papers, nextPaperId, snapshots, attempts, answers, reqs, started, client >>

(***************************************************************************)
(* The response leaves the server.                                         *)
(***************************************************************************)
Respond(s) ==
  /\ reqs[s].pc = "done"
  /\ reqs' = [ reqs EXCEPT ![s] = IdleReq ]
  /\ UNCHANGED << papers, nextPaperId, snapshots, attempts, answers, today, started, client >>

(***************************************************************************)
(* The exam store of the browser: startAttempt, the timer, submitAttempt.  *)
(***************************************************************************)
(* The fields the store's methods read and write, the window's intervals
   and the calls sent. *)
Store ==
  [ currentAttempt |-> currentAttempt, timerStatus |-> timerStatus,
    remainingSeconds |-> remainingSeconds, timerId |-> timerId,
    intervals |-> intervals, nextHandle |-> nextHandle, calls |-> calls,
    ticks |-> ticks ]

SetStore(st) ==
  /\ currentAttempt' = st.currentAttempt
  /\ timerStatus' = st.timerStatus
  /\ remainingSeconds' = st.remainingSeconds
  /\ timerId' = st.timerId
  /\ intervals' = st.intervals
  /\ nextHandle' = st.nextHandle
  /\ calls' = st.calls
  /\ ticks' = st.ticks

(* Mutant: the interval of the window is left scheduled. *)
clearTimerHandleOnly(st) == [ st EXCEPT !.timerId = None ]

(* A handle is a positive number, so timerId is truthy when it is not null. *)
clearTimer(st) ==
  IF st.timerId # None
  THEN [ st EXCEPT !.intervals = @ \ { Val(st.timerId) }, !.timerId = None ]
  ELSE st

(* window.setInterval(() => this.tick(), 1000) *)
setInterval(st) ==
  [ st EXCEPT !.intervals = @ \cup { st.nextHandle }, !.timerId = Some(st.nextHandle),
              !.nextHandle = @ + 1 ]

(* Mutant: the timer starts without a look at the seconds left. *)
startTimerUnchecked(st) ==
  IF st.timerStatus = "running" THEN st
  ELSE setInterval(clearTimer([ st EXCEPT !.timerStatus = "running" ]))

startTimer(st) ==
  IF st.timerStatus = "running" THEN st
  ELSE IF st.remainingSeconds <= 0 THEN [ st EXCEPT !.timerStatus = "expired" ]
  ELSE setInterval(clearTimer([ st EXCEPT !.timerStatus = "running" ]))

(* Mutant: pausing puts the countdown back to the attempt's time limit. *)
pauseTimerReset(st) ==
  IF st.timerStatus # "running" THEN st
  ELSE clearTimer([ st EXCEPT !.timerStatus = "paused",
                              !.remainingSeconds = @ + st.ticks ])

pauseTimer(st) ==
  IF st.timerStatus # "running" THEN st
  ELSE clearTimer([ st EXCEPT !.timerStatus = "paused" ])

resumeTimer(st) ==
  IF st.timerStatus # "paused" THEN st
  ELSE startTimer([ st EXCEPT !.timerStatus = "running" ])

(* The response of actions.exam.startAttempt arrives with the new attempt;
   a failed call sets the error message only. *)
StoreStartAttempt(limit) ==
  /\ runs < StoreAttempts
  /\ runs' = runs + 1
  /\ currentAttempt' = Some([ id |-> runs + 1, timeLimitMinutes |-> limit ])
  /\ timerStatus' = "idle"
  /\ remainingSeconds' = limit * SecondsPerMinute
  /\ ticks' = 0
  /\ UNCHANGED << timerId, intervals, nextHandle, calls, server >>

StartTimer ==
  /\ nextHandle <= MaxHandles
  /\ SetStore(startTimer(Store))
  /\ UNCHANGED << runs, server >>

PauseTimer ==
  /\ SetStore(pauseTimer(Store))
  /\ UNCHANGED << runs, server >>

ResumeTimer ==
  /\ nextHandle <= MaxHandles
  /\ SetStore(resumeTimer(Store))
  /\ UNCHANGED << runs, server >>

(* submitAttempt up to its await: the call leaves with the attempt's id. *)
submitAttempt(st, expired) ==
  IF st.currentAttempt = None THEN st
  ELSE [ st EXCEPT !.calls = Append(@, [ attempt |-> Val(st.currentAttempt),
                                         expired |-> expired, pending |-> TRUE ]) ]

(* Mutant: the countdown stops one tick after it reaches zero. *)
StillRunningAtZero(remaining) == remaining >= 0

(* if (this.remainingSeconds > 0) return; *)
StillRunning(remaining) == remaining > 0

(* tick up to the await in submitAttempt. *)
tick(st) ==
  IF st.timerStatus # "running" THEN st
  ELSE LET ticked == [ st EXCEPT !.remainingSeconds = @ - 1, !.ticks = @ + 1 ]
       IN  IF StillRunning(ticked.remainingSeconds) THEN ticked
           ELSE submitAttempt(clearTimer([ ticked EXCEPT !.timerStatus = "expired" ]),
                              TRUE)

(* The callback of interval h runs. *)
Tick(h) ==
  /\ h \in intervals
  /\ SetStore(tick(Store))
  /\ UNCHANGED << runs, server >>

(* submitAttempt() from the page, expired left at its default. *)
StoreSubmitAttempt ==
  /\ Len(calls) < MaxCalls
  /\ SetStore(submitAttempt(Store, FALSE))
  /\ UNCHANGED << runs, server >>

(* submitAttempt after its await: the answer to call i is the updated
   attempt, or an error. *)
submitReturns(st, i, ok) ==
  LET answered == [ st EXCEPT !.calls[i].pending = FALSE ]
  IN  IF ok
      THEN [ answered EXCEPT
               !.currentAttempt = Some(st.calls[i].attempt),
               !.timerStatus = IF st.calls[i].expired THEN "expired" ELSE "submitted" ]
      ELSE answered

(* Call i is answered. *)
SubmitReturns(i, ok) ==
  /\ i \in 1..Len(calls)
  /\ calls[i].pending
  /\ SetStore(submitReturns(Store, i, ok))
  /\ UNCHANGED << runs, server >>

(* Call i reaches the server, on connection i. *)
Serve(i) ==
  /\ i \in 1..Len(calls)
  /\ calls[i].pending
  /\ started' = started
  /\ SubmitAttemptRow(i, "u1", calls[i].attempt.id, calls[i].expired)

(* The response of the request on connection i reaches the store. *)
Deliver(i) ==
  /\ reqs[i].op = "submitAttempt" /\ reqs[i].pc = "done"
  /\ reqs' = [ reqs EXCEPT ![i] = IdleReq ]
  /\ SetStore(submitReturns(Store, i, reqs[i].result = "OK"))
  /\ UNCHANGED << papers, nextPaperId, snapshots, attempts, answers, today, started, runs >>

PaperIds == 1..MaxPaperIds
AttemptIds == 1..MaxAttempts
Inputs(S) == { None } \cup { Some(x) : x \in S }

(***************************************************************************)
(* The requests a run admits.  A run is described by a record: the sets    *)
(* the requests' inputs are drawn from, what the question source may       *)
(* answer, and how many requests, papers, attempts and answer rows it may  *)
(* hold.                                                                   *)
(***************************************************************************)
(* A request arrives; a run admits maxOps of them. *)
Arrive(maxOps) ==
  /\ started < maxOps
  /\ started' = started + 1

(* A paper insert may follow only while the run has paper ids left. *)
PaperRoom(maxPaperIds, u) ==
  \/ nextPaperId + Cardinality({ x \in Slots : At(x, "createExamPaper", "cp_insert") })
       <= maxPaperIds
  \/ enforcePaperLimit(u) # "OK"

AttemptRoom(maxAttempts, u) ==
  \/ Len(attempts) + InFlight("startAttempt") < maxAttempts
  \/ enforceDailyAttemptLimit(u) # "OK"

AnswerRoom(maxAnswers, u, a, q) ==
  Len(answers) + Cardinality({ x \in Slots : WillInsert(x) })
    + (IF SelectAnswer(a, u, q) = None THEN 1 ELSE 0) <= maxAnswers

PaperStep(s, in) ==
  \/ \E u \in in.users, qc \in in.questionCounts, tl \in in.timeLimits :
       /\ Arrive(in.maxOps) /\ PaperRoom(in.maxPaperIds, u)
       /\ CreatePaperLimit(s, u, qc, tl)
  \/ CreatePaperInsert(s)
  \/ \E delivered \in in.deliveries : CreatePaperPush(s, delivered)
  \/ \E u \in in.users, id \in 1..in.maxPaperIds :
       Arrive(in.maxOps) /\ DeletePaper(s, u, id)
  \/ \E delivered \in in.deliveries : DeletePaperPush(s, delivered)

StartStep(s, in) ==
  \/ \E u \in in.users, id \in 1..in.maxPaperIds, token \in in.tokens :
       /\ Arrive(in.maxOps) /\ AttemptRoom(in.maxAttempts, u)
       /\ StartLimit(s, u, id, token)
  \/ StartPaper(s)
  \/ EnsureExisting(s)
  \/ EnsurePaper(s)
  \/ EnsureFetchFailed(s)
  \/ \E items \in in.responses : EnsureFetch(s, items)
  \/ EnsureInsert(s)
  \/ StartInsert(s)

AnswerStep(s, in) ==
  \/ \E u \in in.users, a \in 1..in.maxAttempts, q \in in.questionIndexes,
        opt \in in.options, flag \in in.flags :
          /\ Arrive(in.maxOps) /\ AnswerRoom(in.maxAnswers, u, a, q)
          /\ SaveAttempt(s, u, a, q, opt, flag)
  \/ SaveExisting(s)
  \/ SaveWrite(s)

SubmitStep(s, in) ==
  \/ \E u \in in.users, a \in 1..in.maxAttempts, expired \in in.expired :
       Arrive(in.maxOps) /\ SubmitAttemptRow(s, u, a, expired)
  \/ SubmitSnapshots(s)
  \/ SubmitAnswers(s)
  \/ SubmitUpdate(s)
  \/ SubmitBackfill(s)
  \/ \E delivered \in in.deliveries : SubmitNotify(s, delivered)

ReviewStep(s, in) ==
  \E u \in in.users, a \in 1..in.maxAttempts, ie \in BOOLEAN :
    Arrive(in.maxOps) /\ AttemptReview(s, u, a, ie)

ReadStep(s, in) ==
  \/ \E u \in in.users : Arrive(in.maxOps) /\ ListPapers(s, u)
  \/ \E u \in in.users, id \in 1..in.maxPaperIds :
       Arrive(in.maxOps) /\ GetPaper(s, u, id)
  \/ \E u \in in.users, a \in 1..in.maxAttempts :
       Arrive(in.maxOps) /\ GetAttemptRow(s, u, a)
  \/ GetAttemptPaper(s)

Step(s, in) ==
  \/ PaperStep(s, in)
  \/ StartStep(s, in)
  \/ AnswerStep(s, in)
  \/ SubmitStep(s, in)
  \/ ReviewStep(s, in)
  \/ Respond(s)

(* Requests of one user racing on two connections. *)
RaceInputs ==
  [ users |-> { "u1" }, questionCounts |-> QuestionCounts, timeLimits |-> TimeLimits,
    questionIndexes |-> { 0 }, options |-> { Some("a") },
    flags |-> { None }, expired |-> BOOLEAN, responses |-> QuizResponses,
    tokens |-> { TRUE }, deliveries |-> { TRUE },
    maxOps |-> MaxOps, maxPaperIds |-> MaxPaperIds, maxAttempts |-> MaxAttempts,
    maxAnswers |-> MaxAnswers ]

Next == \E s \in RaceSlots : Step(s, RaceInputs)

Spec == Init /\ [][Next]_vars

(* Requests of two users, one at a time. *)
SeqInputs ==
  [ RaceInputs EXCEPT !.users = Users, !.questionIndexes = QuestionIndexes,
                      !.options = Inputs(OptionTexts), !.flags = Inputs(BOOLEAN) ]

NextSeq == \E s \in SeqSlots : Step(s, SeqInputs)

SpecSeq == Init /\ [][NextSeq]_vars

(* calculateScore on every snapshot of up to MaxScoreSnapshots questions and
   every list of up to MaxScoreAnswers answers: a selection may be missing,
   empty, right, wrong or the text "null", and an answer may name a question
   the snapshot does not hold. *)
ScoreItems == UNION { [ 1..n -> { None, Some("a") } ] : n \in 0..MaxScoreSnapshots }

ScoreAnswerRows ==
  [ questionIndex : { 0, 1, 7 },
    selectedOption : { None, Some(""), Some("a"), Some("null") } ]

ScoreAnswers == UNION { [ 1..n -> ScoreAnswerRows ] : n \in 0..MaxScoreAnswers }

ScoreCall(as, snaps) ==
  [ IdleReq EXCEPT !.op = "calculateScore", !.pc = "call",
                   !.lanswers = as, !.lsnapshots = snaps ]

InitScore ==
  /\ papers = {}
  /\ nextPaperId = 1
  /\ snapshots = << >>
  /\ attempts = << >>
  /\ answers = << >>
  /\ today = 0
  /\ started = 0
  /\ InitStore
  /\ \E items \in ScoreItems, as \in ScoreAnswers :
       reqs = [ s \in Slots |->
                 IF s \in SeqSlots THEN ScoreCall(as, sanitize(items, "u1", 1))
                 ELSE IdleReq ]

NextScore == \E s \in SeqSlots : CalculateScore(s) \/ Respond(s)

SpecScore == InitScore /\ [][NextScore]_vars

(* One attempt from its start to its submission.  The run begins after
   createExamPaper, startAttempt and k saveAnswer calls: a paper of n
   questions, each stored with the correct answer "a", its attempt in
   progress, the first k questions answered right. *)
ExamPaper(n) == NewPaperRow(1, "u1", n, MinTimeLimit)

AnsweredRows(k) == [ i \in 1..k |-> NewAnswerRow(i, 1, "u1", i - 1, Some("a"), None) ]

ExamStarts == { << 5, 0 >>, << 40, 22 >> }

InitExam ==
  /\ today = 0
  /\ started = 0
  /\ InitStore
  /\ nextPaperId = 2
  /\ reqs = [ s \in Slots |-> IdleReq ]
  /\ \E st \in ExamStarts :
       /\ papers = { ExamPaper(st[1]) }
       /\ snapshots = sanitize([ i \in 1..st[1] |-> Some("a") ], "u1", 1)
       /\ attempts = << NewAttemptRow(1, "u1", ExamPaper(st[1])) >>
       /\ answers = AnsweredRows(st[2])

ExamInputs ==
  [ RaceInputs EXCEPT !.questionIndexes = { 0, 1, 2, 22 }, !.expired = { FALSE },
                      !.options = { Some("a"), Some("b") },
                      !.maxOps = ExamOps, !.maxAttempts = 1,
                      !.maxAnswers = ExamAnswers ]

NextExam ==
  \E s \in SeqSlots :
    \/ AnswerStep(s, ExamInputs)
    \/ SubmitStep(s, ExamInputs)
    \/ Respond(s)

SpecExam == InitExam /\ [][NextExam]_vars

(* Papers created and deleted: by a free and a paid user, one request at a
   time; and by the free user on all connections at once. *)
QuotaInputs == [ SeqInputs EXCEPT !.maxOps = QuotaOps, !.maxPaperIds = QuotaPaperIds ]

NextQuota == \E s \in SeqSlots : PaperStep(s, QuotaInputs) \/ Respond(s)

SpecQuota == Init /\ [][NextQuota]_vars

QuotaRaceInputs == [ QuotaInputs EXCEPT !.users = Users \ PaidUsers ]

NextQuotaRace == \E s \in Slots : PaperStep(s, QuotaRaceInputs) \/ Respond(s)

SpecQuotaRace == Init /\ [][NextQuotaRace]_vars

(* Attempts started by the free user over two days, one request at a time. *)
DailyInputs ==
  [ RaceInputs EXCEPT !.responses = { ShortItems }, !.maxOps = DailyOps,
                      !.maxAttempts = DailyAttempts ]

NextDaily ==
  \/ \E s \in SeqSlots :
        \/ PaperStep(s, DailyInputs)
        \/ StartStep(s, DailyInputs)
        \/ Respond(s)
  \/ NextDay(MaxDay)

SpecDaily == Init /\ [][NextDaily]_vars

(* Attempts started over three days and listed, by a free and a paid user,
   one request at a time; the start asked for is missing, older than the free
   window or newer. *)
HistoryInputs ==
  [ SeqInputs EXCEPT !.responses = { ShortItems }, !.maxOps = HistoryOps,
                     !.maxPaperIds = HistoryPapers, !.maxAttempts = HistoryAttempts ]

HistoryStep(s, in) ==
  \E u \in in.users, limit \in { None, Some(1) }, start \in Inputs({ 0, LastDay }) :
    Arrive(in.maxOps) /\ ListAttempts(s, u, limit, start)

NextHistory ==
  \/ \E s \in SeqSlots :
        \/ PaperStep(s, HistoryInputs)
        \/ StartStep(s, HistoryInputs)
        \/ HistoryStep(s, HistoryInputs)
        \/ Respond(s)
  \/ NextDay(LastDay)

SpecHistory == Init /\ [][NextHistory]_vars

(* Attempts started, answered and submitted on two connections while the
   user's paper is deleted and another, with another time limit, is created. *)
StartInputs ==
  [ RaceInputs EXCEPT !.timeLimits = { MinTimeLimit, MinTimeLimit + 1 },
                      !.responses = { << >>, ShortItems }, !.maxOps = StartOps,
                      !.maxPaperIds = StartPapers ]

NextStart ==
  \E s \in RaceSlots :
    \/ PaperStep(s, StartInputs)
    \/ StartStep(s, StartInputs)
    \/ AnswerStep(s, StartInputs)
    \/ SubmitStep(s, StartInputs)
    \/ Respond(s)

SpecStart == Init /\ [][NextStart]_vars

(* Every operation of the paper model, by a free and a paid user with each
   other's ids, one request at a time, with and without a session token. *)
IsolationInputs ==
  [ SeqInputs EXCEPT !.questionIndexes = { 0 }, !.options = { Some("a") },
                     !.flags = { None }, !.expired = { FALSE },
                     !.responses = { ShortItems }, !.tokens = BOOLEAN,
                     !.maxOps = IsolationOps, !.maxPaperIds = IsolationPapers ]

NextIsolation ==
  \E s \in SeqSlots :
    \/ Step(s, IsolationInputs)
    \/ ReadStep(s, IsolationInputs)
    \/ HistoryStep(s, IsolationInputs)

SpecIsolation == Init /\ [][NextIsolation]_vars

(* Answers saved by one user on two connections: the client does not await
   the save of selectAnswer before toggleFlag sends the next one. *)
AnswerRaceInputs ==
  [ RaceInputs EXCEPT !.options = Inputs({ "a" }), !.flags = Inputs({ TRUE }),
                      !.responses = { ShortItems }, !.maxOps = AnswerRaceOps,
                      !.maxAnswers = AnswerRaceRows ]

NextAnswerRace ==
  \E s \in RaceSlots :
    \/ PaperStep(s, AnswerRaceInputs)
    \/ StartStep(s, AnswerRaceInputs)
    \/ AnswerStep(s, AnswerRaceInputs)
    \/ Respond(s)

SpecAnswerRace == Init /\ [][NextAnswerRace]_vars

(* The store with its timer: attempts begun, the timer started, paused and
   resumed, the interval's callback, submissions sent and answered. *)
NextTimer ==
  \/ \E limit \in 1..TimerMinutes : StoreStartAttempt(limit)
  \/ StartTimer
  \/ PauseTimer
  \/ ResumeTimer
  \/ \E h \in intervals : Tick(h)
  \/ StoreSubmitAttempt
  \/ \E i \in 1..MaxCalls + StoreAttempts, ok \in BOOLEAN : SubmitReturns(i, ok)

SpecTimer == Init /\ [][NextTimer]_vars

(* buildExamDashboardSummary over a store of up to SummaryAttempts attempts
   of a paper of MinQuestionCount questions, on day SummaryDay: each attempt
   is of one of the users, was started the day before the window opens, the
   day it opens or today, and is in progress or submitted with
   SummaryCorrect right answers. *)
SummaryScore(correct) ==
  [ correct |-> correct, wrong |-> MinQuestionCount - correct, unattempted |-> 0,
    total |-> MinQuestionCount, percent |-> RoundPercent(correct, MinQuestionCount) ]

SummaryPaper(u) ==
  NewPaperRow(IF u \in PaidUsers THEN 2 ELSE 1, u, MinQuestionCount, MinTimeLimit)

SummaryRow(id, k) ==
  LET row == [ NewAttemptRow(id, k.user, SummaryPaper(k.user))
                 EXCEPT !.startedAt = k.startedAt ]
  IN  IF k.correct = None THEN row
      ELSE SubmittedRow(row, "submitted", SummaryScore(Val(k.correct)))

SummaryKinds ==
  [ user : Users, startedAt : { today - WeekDays - 1, today - WeekDays, today },
    correct : Inputs(SummaryCorrect) ]

InitSummary ==
  /\ today = SummaryDay
  /\ papers = { SummaryPaper(u) : u \in Users }
  /\ nextPaperId = Cardinality(Users) + 1
  /\ snapshots = << >>
  /\ answers = << >>
  /\ started = 0
  /\ InitStore
  /\ reqs = [ s \in Slots |-> IdleReq ]
  /\ \E n \in 0..SummaryAttempts : \E kinds \in [ 1..n -> SummaryKinds ] :
       attempts = [ i \in 1..n |-> SummaryRow(i, kinds[i]) ]

NextSummary ==
  \E s \in SeqSlots :
    \/ \E u \in Users : Arrive(SummaryCalls) /\ BuildSummary(s, u)
    \/ SummaryQuery(s)
    \/ Respond(s)

SpecSummary == InitSummary /\ [][NextSummary]_vars

(* A summary built while requests of the same user start, answer and submit
   attempts. *)
SummaryRaceInputs ==
  [ RaceInputs EXCEPT !.responses = { ShortItems }, !.maxOps = SummaryRaceOps ]

NextSummaryRace ==
  \E s \in RaceSlots :
    \/ PaperStep(s, SummaryRaceInputs)
    \/ StartStep(s, SummaryRaceInputs)
    \/ AnswerStep(s, SummaryRaceInputs)
    \/ SubmitStep(s, SummaryRaceInputs)
    \/ \E u \in SummaryRaceInputs.users :
         Arrive(SummaryRaceInputs.maxOps) /\ BuildSummary(s, u)
    \/ SummaryQuery(s)
    \/ Respond(s)

SpecSummaryRace == Init /\ [][NextSummaryRace]_vars

(* The store and the server in the last seconds of an attempt: the run
   begins OverlapSeconds before the time is up, the timer running, one
   answer saved; the page may submit once, the ticks go on, every call is
   served on a connection of its own and answered. *)
InitOverlap ==
  /\ today = 0
  /\ started = 0
  /\ nextPaperId = 2
  /\ reqs = [ s \in Slots |-> IdleReq ]
  /\ papers = { ExamPaper(MinQuestionCount) }
  /\ snapshots = sanitize(FullItems, "u1", 1)
  /\ attempts = << NewAttemptRow(1, "u1", ExamPaper(MinQuestionCount)) >>
  /\ answers = AnsweredRows(1)
  /\ currentAttempt = Some([ id |-> 1, timeLimitMinutes |-> MinTimeLimit ])
  /\ timerStatus = "running"
  /\ remainingSeconds = OverlapSeconds
  /\ ticks = MinTimeLimit * SecondsPerMinute - OverlapSeconds
  /\ timerId = Some(1)
  /\ intervals = { 1 }
  /\ nextHandle = 2
  /\ calls = << >>
  /\ runs = 1

NextOverlap ==
  \/ \E h \in intervals : Tick(h)
  \/ StoreSubmitAttempt
  \/ \E i \in Slots :
       \/ Serve(i)
       \/ SubmitSnapshots(i)
       \/ SubmitAnswers(i)
       \/ SubmitUpdate(i)
       \/ SubmitBackfill(i)
       \/ SubmitNotify(i, TRUE)
       \/ Deliver(i)

SpecOverlap == InitOverlap /\ [][NextOverlap]_vars

(* One request at a time, each post of a summary delivered or failing. *)
PushInputs ==
  [ RaceInputs EXCEPT !.deliveries = BOOLEAN, !.responses = { FullItems },
                      !.maxOps = PushOps ]

NextPush ==
  \E s \in SeqSlots :
    \/ PaperStep(s, PushInputs)
    \/ StartStep(s, PushInputs)
    \/ AnswerStep(s, PushInputs)
    \/ SubmitStep(s, PushInputs)
    \/ Respond(s)

SpecPush == Init /\ [][NextPush]_vars

(***************************************************************************)
(* Properties.                                                             *)
(***************************************************************************)
Pairs == PaperIds \X Users

Indexes(rows) == { rows[i].questionIndex : i \in 1..Len(rows) }

Done(s, o) == reqs[s].op = o /\ reqs[s].pc = "done"

(* C1: two concurrent startAttempt calls on a paper without a snapshot leave
   one snapshot set: no questionIndex is stored in two rows of one
   (paper, user), and the set is not partial. *)
C1_OneSnapshotSet ==
  \A pu \in Pairs :
    LET rows == SelectSnapshots(pu[1], pu[2])
    IN  \A i, j \in 1..Len(rows) :
          rows[i].questionIndex = rows[j].questionIndex => i = j

(* C2: once a snapshot row exists for (paper, user), a later ensureSnapshot
   neither asks the question source nor inserts, and no step of any operation
   changes, adds or removes rows of that pair. *)
C2_SnapshotFrozen ==
  [][ \A pu \in Pairs :
        SelectSnapshots(pu[1], pu[2]) # << >> =>
          /\ SelectSnapshots(pu[1], pu[2])' = SelectSnapshots(pu[1], pu[2])
          /\ \A s \in Slots :
               ( /\ reqs[s].pc = "es_existing"
                 /\ reqs[s].paperId = pu[1] /\ reqs[s].user = pu[2]
                 /\ reqs'[s] # reqs[s] ) => reqs'[s].pc = "sa_insert" ]_vars

(* C3: the snapshot rows of a (paper, user) are absent, or their
   questionIndex values are exactly 0..n-1, each once. *)
C3_Contiguous ==
  \A pu \in Pairs :
    LET rows == SelectSnapshots(pu[1], pu[2])
    IN  /\ Indexes(rows) = 0..(Len(rows) - 1)
        /\ Cardinality(Indexes(rows)) = Len(rows)

(* C4: after a successful startAttempt the number of snapshot rows of
   (paper, owner) equals the paper's questionCount. *)
C4_SnapshotSizeIsQuestionCount ==
  \A s \in Slots :
    Done(s, "startAttempt") /\ reqs[s].result = "OK" =>
      Len(SelectSnapshots(reqs[s].paperId, reqs[s].user))
        = Val(reqs[s].paper).questionCount

(* C5: when the question source returns zero items, startAttempt ends with
   BAD_REQUEST and has inserted neither a snapshot row nor an attempt row. *)
C5_ZeroItemsFailClean ==
  \A s \in Slots :
    reqs[s].op = "startAttempt" /\ reqs[s].fetched = Some(0) =>
      /\ reqs[s].pc = "done"
      /\ reqs[s].result = "BAD_REQUEST"
      /\ reqs[s].insSnap = 0
      /\ reqs[s].insAttempt = None

C5_Witness ==
  \E s \in Slots :
    /\ Done(s, "startAttempt") /\ reqs[s].fetched = Some(0)
    /\ SelectSnapshots(reqs[s].paperId, reqs[s].user) = << >>
    /\ attempts = << >>

(* C6: when the question source answers non-2xx, startAttempt ends with an
   error of the service-unavailable kind and has inserted nothing. *)
C6_ServiceUnavailable ==
  \A s \in Slots :
    reqs[s].op = "startAttempt" /\ reqs[s].fetched = Some(-1) =>
      /\ reqs[s].pc = "done"
      /\ reqs[s].result = "SERVICE_UNAVAILABLE"
      /\ reqs[s].insSnap = 0
      /\ reqs[s].insAttempt = None

(* C7: once an attempt is submitted or expired, no step changes its status. *)
C7_TerminalStatus ==
  [][ \A i \in 1..Len(attempts) :
        attempts[i].status \in { "submitted", "expired" } =>
          attempts'[i].status = attempts[i].status ]_vars

(* C8: an attempt row is written at most once after its creation: every
   update of submitAttempt hits a row no submission has written. *)
C8_WrittenOnce ==
  [][ \A s \in Slots :
        ( /\ reqs[s].op = "submitAttempt" /\ reqs[s].pc = "sb_update"
          /\ reqs'[s].pc = "sb_backfill" ) =>
            attempts[reqs[s].attemptId].submittedAt = None ]_vars

(* C9: submitAttempt on an attempt that is already submitted succeeds, and
   the attempt then carries the score of the answers stored at that call. *)
C9_ResubmitRecomputes ==
  \A s \in Slots :
    ( /\ Done(s, "submitAttempt") /\ reqs[s].attempt # None
      /\ Val(reqs[s].attempt).status = "submitted" ) =>
        LET row == attempts[reqs[s].attemptId]
            score == calculateScore(SelectAnswers(row.id, reqs[s].user),
                                    SelectSnapshots(row.paperId, reqs[s].user))
        IN  /\ reqs[s].result = "OK"
            /\ row.correctCount = Some(score.correct)
            /\ row.wrongCount = Some(score.wrong)
            /\ row.unattemptedCount = Some(score.unattempted)
            /\ row.percent = Some(score.percent)

C9_Witness ==
  \E s \in Slots :
    /\ Done(s, "submitAttempt") /\ reqs[s].attempt # None
    /\ Val(reqs[s].attempt).status = "submitted"
    /\ attempts[reqs[s].attemptId].correctCount # Val(reqs[s].attempt).correctCount
    /\ attempts[reqs[s].attemptId].percent # Val(reqs[s].attempt).percent

(* C10: an in_progress attempt has submittedAt and the four score columns
   null; a submitted or expired attempt has all of them set. *)
C10_ScoreFieldsFollowStatus ==
  \A i \in 1..Len(attempts) :
    LET a == attempts[i]
        cols == { a.submittedAt, a.correctCount, a.wrongCount,
                  a.unattemptedCount, a.percent }
    IN  /\ a.status \in { "in_progress", "submitted", "expired" }
        /\ a.status = "in_progress" => cols = { None }
        /\ a.status # "in_progress" => None \notin cols

C10_Witness ==
  \E i, j \in 1..Len(attempts) :
    /\ attempts[i].status = "in_progress"
    /\ attempts[j].status = "expired"
    /\ \E s \in Slots : reqs[s].op = "submitAttempt" /\ reqs[s].pc = "sb_update"

(* What the claims say of a score: the selection a question ends with (the
   last answer row naming it), and the string form of a nullable text. *)
Scored(s) == reqs[s].op = "calculateScore" /\ reqs[s].pc = "done"

LastSelection(as, q) ==
  LET rows == SelectSeq(as, LAMBDA r : r.questionIndex = q)
  IN  IF rows = << >> THEN None ELSE rows[Len(rows)].selectedOption

Selected(as, q) == LastSelection(as, q) \notin { None, Some("") }

StringForm(o) == IF o = None THEN "null" ELSE o[1]

AnsweredRight(as, snap) ==
  /\ Selected(as, snap.questionIndex)
  /\ StringForm(LastSelection(as, snap.questionIndex)) = StringForm(snap.correctAnswer)

(* C11: for a snapshot of N rows and any answers, calculateScore returns
   total = N, correct + wrong + unattempted = N with none negative, and a
   percent in 0..100 that is 0 without answers or with N = 0 and 100 when
   every question is answered correctly. *)
C11_ScoreTotals ==
  \A s \in Slots : Scored(s) =>
    LET r == reqs[s]
        sc == Val(r.score)
        N == Len(r.lsnapshots)
    IN  /\ sc.total = N
        /\ sc.correct + sc.wrong + sc.unattempted = N
        /\ sc.correct >= 0 /\ sc.wrong >= 0 /\ sc.unattempted >= 0
        /\ sc.percent \in 0..100
        /\ (r.lanswers = << >> \/ N = 0) => sc.percent = 0
        /\ ( /\ N > 0
             /\ \A i \in 1..N : AnsweredRight(r.lanswers, r.lsnapshots[i]) )
             => sc.percent = 100

C11_Witness ==
  \E s \in Slots :
    /\ Scored(s)
    /\ Len(reqs[s].lsnapshots) = 2
    /\ \A i \in 1..2 : AnsweredRight(reqs[s].lanswers, reqs[s].lsnapshots[i])
    /\ Val(reqs[s].score).percent = 100

(* C12: calculateScore counts each snapshot row by itself: unattempted when
   the question has no answer row or an empty or null selection, correct when
   the selection's string form equals that of the stored correct answer,
   wrong otherwise; an answer naming no snapshot row changes no count. *)
C12_Classification ==
  \A s \in Slots : Scored(s) =>
    LET r == reqs[s]
        sc == Val(r.score)
        rows == 1..Len(r.lsnapshots)
        attempted == { i \in rows : Selected(r.lanswers, r.lsnapshots[i].questionIndex) }
        right == { i \in rows : AnsweredRight(r.lanswers, r.lsnapshots[i]) }
        known == SelectSeq(r.lanswers,
                   LAMBDA a : \E i \in rows : r.lsnapshots[i].questionIndex = a.questionIndex)
    IN  /\ sc.correct = Cardinality(right)
        /\ sc.wrong = Cardinality(attempted \ right)
        /\ sc.unattempted = Cardinality(rows \ attempted)
        /\ sc = calculateScore(known, r.lsnapshots)

C12_Witness ==
  \E s \in Slots :
    /\ Scored(s)
    /\ Val(reqs[s].score).correct = 1
    /\ Val(reqs[s].score).unattempted = 1
    /\ \E i \in 1..Len(reqs[s].lanswers) :
         /\ reqs[s].lanswers[i].questionIndex = 7
         /\ reqs[s].lanswers[i].selectedOption = Some("a")

(* C13: after saveAnswer calls that leave c questions of the n in the
   snapshot with the correct selection and w with a wrong one,
   submitAttempt(expired = false) returns the attempt with status submitted,
   correct = c, wrong = w, unattempted = n - c - w and
   percent = round(100 * c / n). *)
C13_EndToEndScore ==
  \A s \in Slots :
    ( Done(s, "submitAttempt") /\ reqs[s].result = "OK" /\ ~reqs[s].expired ) =>
      LET row == attempts[reqs[s].attemptId]
          snaps == SelectSnapshots(row.paperId, row.userId)
          as == SelectAnswers(row.id, row.userId)
          n == Len(snaps)
          chosen == { i \in 1..n : Selected(as, snaps[i].questionIndex) }
          right == { i \in 1..n : AnsweredRight(as, snaps[i]) }
          c == Cardinality(right)
          w == Cardinality(chosen \ right)
      IN  /\ row.status = "submitted"
          /\ row.correctCount = Some(c)
          /\ row.wrongCount = Some(w)
          /\ row.unattemptedCount = Some(n - c - w)
          /\ row.percent = Some((200 * c + n) \div (2 * n))

(* The correct answer on record for question q of a snapshot, if any. *)
Recorded(snaps, q) ==
  LET rows == SelectSeq(snaps, LAMBDA r : r.questionIndex = q)
  IN  IF rows = << >> THEN None ELSE rows[1].correctAnswer

(* C14: when submitAttempt has completed with no other operation running,
   every answer row of the attempt has isCorrect true if its selection equals
   the correct answer on record, false if it has a selection that differs
   from the one on record, and null if it has no selection or the question
   has no correct answer on record. *)
C14_BackfilledCorrectness ==
  \A s \in Slots :
    ( Done(s, "submitAttempt") /\ reqs[s].result = "OK" ) =>
      LET row == attempts[reqs[s].attemptId]
          snaps == SelectSnapshots(row.paperId, row.userId)
          as == SelectAnswers(row.id, row.userId)
      IN  \A i \in 1..Len(as) :
            LET recorded == Recorded(snaps, as[i].questionIndex)
                selection == as[i].selectedOption
            IN  as[i].isCorrect =
                  IF selection \in { None, Some("") } \/ recorded \in { None, Some("") }
                  THEN None
                  ELSE Some(selection = recorded)

C14_Witness ==
  \E s \in Slots :
    /\ Done(s, "submitAttempt") /\ reqs[s].result = "OK"
    /\ \E i \in 1..Len(answers) :
         /\ answers[i].attemptId = reqs[s].attemptId
         /\ answers[i].selectedOption = Some("a")
         /\ Recorded(SelectSnapshots(attempts[reqs[s].attemptId].paperId, reqs[s].user),
                     answers[i].questionIndex) = None
         /\ Len(SelectSnapshots(attempts[reqs[s].attemptId].paperId, reqs[s].user)) = 5
         /\ answers[i].isCorrect = None

(* C15: with createExamPaper calls made one at a time, a free user's call
   succeeds exactly when the user owns fewer than maxPapers papers; made
   while owning maxPapers it fails with PAYMENT_REQUIRED and inserts nothing,
   so a free user never owns more than maxPapers; a paid user is never
   denied. *)
C15_PaperQuota ==
  /\ \A u \in Users \ PaidUsers : CountPapers(u) <= maxPapers
  /\ \A s \in Slots : Done(s, "createExamPaper") =>
       LET r == reqs[s]
       IN  /\ r.result \in { "OK", "PAYMENT_REQUIRED" }
           /\ r.result = "OK" =>
                /\ r.paper # None /\ Val(r.paper) \in papers
                /\ isPaid(r.user) \/ CountPapers(r.user) - 1 < maxPapers
           /\ r.result = "PAYMENT_REQUIRED" =>
                /\ ~isPaid(r.user)
                /\ CountPapers(r.user) >= maxPapers
                /\ r.paper = None

C15_Witness ==
  \E s \in Slots :
    /\ Done(s, "createExamPaper") /\ reqs[s].result = "PAYMENT_REQUIRED"
    /\ CountPapers(reqs[s].user) = maxPapers
    /\ \E u \in PaidUsers : CountPapers(u) > maxPapers

(* C16: when createExamPaper requests of one free user run concurrently, the
   user ends up owning at most maxPapers + 1 papers. *)
C16_OneOverLimit ==
  \A u \in Users \ PaidUsers : CountPapers(u) <= maxPapers + 1

(* The attempts of u started at or after today's midnight. *)
StartedToday(u) ==
  Cardinality({ i \in 1..Len(attempts) :
                  attempts[i].userId = u /\ attempts[i].startedAt >= today })

(* C17: a startAttempt of a free user who has maxAttemptsPerDay attempts
   started at or after today's midnight fails with PAYMENT_REQUIRED at once:
   no snapshot is fetched or inserted and no attempt row is inserted.  With
   fewer attempts today, whatever was started on earlier days, the request
   passes the check. *)
C17_DailyLimit ==
  [][ \A s \in Slots :
        ( Free(s) /\ reqs'[s].op = "startAttempt" ) =>
          IF ~isPaid(reqs'[s].user) /\ StartedToday(reqs'[s].user) >= maxAttemptsPerDay
          THEN /\ reqs'[s].pc = "done"
               /\ reqs'[s].result = "PAYMENT_REQUIRED"
               /\ reqs'[s].fetched = None
               /\ snapshots' = snapshots
               /\ attempts' = attempts
          ELSE reqs'[s].pc = "sa_paper" ]_vars

C17_Witness ==
  \E s \in Slots :
    /\ Done(s, "startAttempt") /\ reqs[s].result = "PAYMENT_REQUIRED"
    /\ StartedToday(reqs[s].user) = maxAttemptsPerDay
    /\ \E i \in 1..Len(attempts) :
         attempts[i].userId = reqs[s].user /\ attempts[i].startedAt < today

(* The attempts of u started at or after day lo. *)
StartedSince(u, lo) ==
  { attempts[i] : i \in { j \in 1..Len(attempts) :
                            attempts[j].userId = u /\ attempts[j].startedAt >= lo } }

Listed(r) == { r.listed[i] : i \in 1..Len(r.listed) }

(* C18: listAttempts of a free user returns only attempts started at or
   after midnight of today - (historyDays - 1) and reports that floor as
   windowStart, whatever start is asked for; of a paid user it uses the
   start asked for, or no lower bound and windowStart null without one. *)
C18_HistoryWindow ==
  [][ \A s \in Slots :
        ( Free(s) /\ reqs'[s].op = "listAttempts" ) =>
          LET r == reqs'[s]
              floor == today - (historyDays - 1)
              all == { attempts[i] : i \in { j \in 1..Len(attempts) :
                                               attempts[j].userId = r.user } }
              window == IF ~isPaid(r.user) THEN StartedSince(r.user, floor)
                        ELSE IF r.start = None THEN all
                        ELSE StartedSince(r.user, Val(r.start))
              most == IF r.limit = None THEN DefaultLimit ELSE Val(r.limit)
          IN  /\ r.windowStart = IF ~isPaid(r.user) THEN Some(floor) ELSE r.start
              /\ Listed(r) \subseteq window
              /\ Cardinality(Listed(r)) = Len(r.listed)
              /\ Len(r.listed) = IF Cardinality(window) < most
                                 THEN Cardinality(window) ELSE most ]_vars

C18_Witness ==
  \E s \in Slots :
    /\ Done(s, "listAttempts") /\ ~isPaid(reqs[s].user)
    /\ reqs[s].start = Some(0)
    /\ reqs[s].windowStart = Some(1)
    /\ Len(reqs[s].listed) = 1
    /\ \E i \in 1..Len(attempts) :
         attempts[i].userId = reqs[s].user /\ attempts[i].startedAt = 0

(* C19: an attempt row is inserted only by a startAttempt that passed the
   daily check and found the paper owned by its caller, and when the
   snapshot of (paper, caller) exists; the row is in_progress and carries the
   paper's timeLimitMinutes, which no later step changes; a startAttempt
   that fails inserts no attempt row. *)
C19_StartPreconditions ==
  [][ /\ \A i \in 1..Len(attempts) :
           /\ Len(attempts') >= i
           /\ attempts'[i].timeLimitMinutes = attempts[i].timeLimitMinutes
      /\ Len(attempts') # Len(attempts) =>
           /\ Len(attempts') = Len(attempts) + 1
           /\ \E s \in Slots :
                LET r == reqs[s]
                    row == attempts'[Len(attempts')]
                IN  /\ r.op = "startAttempt" /\ r.pc # "done"
                    /\ reqs'[s].pc = "done" /\ reqs'[s].result = "OK"
                    /\ r.paper # None
                    /\ Val(r.paper).id = r.paperId /\ Val(r.paper).userId = r.user
                    /\ SelectSnapshots(r.paperId, r.user) # << >>
                    /\ row.userId = r.user /\ row.paperId = r.paperId
                    /\ row.status = "in_progress"
                    /\ row.timeLimitMinutes = Val(r.paper).timeLimitMinutes
                    /\ \A p \in papers :
                         p.id = r.paperId => row.timeLimitMinutes = p.timeLimitMinutes
      /\ \A s \in Slots :
           ( /\ reqs[s].op = "startAttempt" /\ reqs[s].pc # "done"
             /\ reqs'[s].pc = "done" /\ reqs'[s].result # "OK" )
             => attempts' = attempts /\ reqs'[s].insAttempt = None ]_vars

C19_Witness ==
  /\ \E i, j \in 1..Len(attempts) :
       /\ attempts[i].timeLimitMinutes # attempts[j].timeLimitMinutes
       /\ attempts[i].status = "submitted"
  /\ \E s \in Slots : Done(s, "startAttempt") /\ reqs[s].result = "OK"

(* The rows a user owns. *)
OwnedRows(u) ==
  << { p \in papers : p.userId = u },
     SelectSeq(snapshots, LAMBDA r : r.userId = u),
     SelectSeq(attempts, LAMBDA r : r.userId = u),
     SelectSeq(answers, LAMBDA r : r.userId = u) >>

(* The request names a paper or an attempt that another user owns. *)
ForeignTarget(r) ==
  \/ /\ r.op \in { "getExamPaper", "deleteExamPaper", "startAttempt" }
     /\ \E p \in papers : p.id = r.paperId /\ p.userId # r.user
  \/ /\ r.op \in { "saveAnswer", "submitAttempt", "getAttempt", "getAttemptReview" }
     /\ r.attemptId \in 1..Len(attempts)
     /\ attempts[r.attemptId].userId # r.user

(* The paper, attempt and listed rows a finished request hands back. *)
Returned(r) ==
  { Val(o) : o \in { r.paper, r.attempt } \ { None } }
    \cup { r.listed[i] : i \in 1..Len(r.listed) }

Finishes(s) == reqs[s].pc # "done" /\ reqs'[s].pc = "done"

(* A user's rows change only in a step of that user's own request. *)
OwnRowsOnly ==
  \A u \in Users :
    OwnedRows(u)' # OwnedRows(u) =>
      \E s \in Slots :
        /\ reqs'[s] # reqs[s]
        /\ reqs'[s].op # "idle" /\ reqs'[s].user = u

(* A finished request hands back rows of its caller only. *)
OwnReturnsOnly ==
  \A s \in Slots :
    Finishes(s) => \A row \in Returned(reqs'[s]) : row.userId = reqs'[s].user

(* An error raised before the lookup: the caller's own daily limit, a
   missing session token, explanations asked for by a free caller. *)
RejectedBeforeLookup(r) ==
  \/ /\ r.op = "startAttempt" /\ r.result = "PAYMENT_REQUIRED"
     /\ enforceDailyAttemptLimit(r.user) = "PAYMENT_REQUIRED"
  \/ r.op = "startAttempt" /\ r.result = "UNAUTHORIZED"
  \/ r.op = "getAttemptReview" /\ r.result = "PAYMENT_REQUIRED" /\ ~isPaid(r.user)

(* C20 as amended: an operation of V on a paper or attempt of U fails with
   NOT_FOUND, or with the error of a check that precedes the lookup (V's own
   daily limit, a missing session token, explanations asked for by a free
   V); it hands back none of U's rows and changes none of them; every list
   holds the caller's rows only. *)
C20_Isolation ==
  [][ /\ OwnRowsOnly
      /\ OwnReturnsOnly
      /\ \A s \in Slots :
           Finishes(s) /\ ForeignTarget(reqs'[s]) =>
             /\ reqs'[s].result = "NOT_FOUND" \/ RejectedBeforeLookup(reqs'[s])
             /\ Returned(reqs'[s]) = {} ]_vars

C20_Witness ==
  \E s \in Slots :
    /\ Done(s, "startAttempt") /\ ForeignTarget(reqs[s])
    /\ reqs[s].result = "PAYMENT_REQUIRED"

(* C20 as stated: every operation of V on a paper or attempt of U fails
   with NOT_FOUND, hands back none of U's rows and changes none of them;
   every list holds the caller's rows only. *)
C20_NotFoundOnly ==
  [][ /\ OwnRowsOnly
      /\ OwnReturnsOnly
      /\ \A s \in Slots :
           Finishes(s) /\ ForeignTarget(reqs'[s]) =>
             /\ reqs'[s].result = "NOT_FOUND"
             /\ Returned(reqs'[s]) = {} ]_vars

(* C21: there is at most one answer row per (attemptId, questionIndex),
   also when two saveAnswer calls for one attempt and question overlap. *)
C21_OneAnswerRow ==
  \A i, j \in 1..Len(answers) :
    ( /\ answers[i].attemptId = answers[j].attemptId
      /\ answers[i].questionIndex = answers[j].questionIndex ) => i = j

(* C22: saveAnswer on an attempt of its caller succeeds whatever the
   attempt's status: it inserts the answer row of (attempt, question) or
   updates the one there is, and no step of it changes an attempt row. *)
C22_SaveIgnoresStatus ==
  [][ \A s \in Slots :
        LET r == reqs[s]
            before == SelectAnswer(r.attemptId, r.user, r.questionIndex)
        IN  /\ reqs'[s].op = "saveAnswer" /\ reqs'[s] # reqs[s] => attempts' = attempts
            /\ ( /\ Finishes(s) /\ reqs'[s].op = "saveAnswer"
                 /\ SelectAttempt(reqs'[s].attemptId, reqs'[s].user) # None ) =>
                   /\ reqs'[s].result = "OK"
                   /\ r.op = "saveAnswer"
                   /\ IF before = None
                      THEN /\ Len(answers') = Len(answers) + 1
                           /\ SubSeq(answers', 1, Len(answers)) = answers
                           /\ answers'[Len(answers')].attemptId = r.attemptId
                           /\ answers'[Len(answers')].questionIndex = r.questionIndex
                      ELSE /\ Len(answers') = Len(answers)
                           /\ \A i \in 1..Len(answers) :
                                i # Val(before).id => answers'[i] = answers[i]
                           /\ answers'[Val(before).id].attemptId = r.attemptId
                           /\ answers'[Val(before).id].questionIndex = r.questionIndex ]_vars

C22_Witness ==
  \E s \in Slots :
    /\ Done(s, "saveAnswer") /\ reqs[s].result = "OK"
    /\ attempts[reqs[s].attemptId].status = "expired"
    /\ \E i \in 1..Len(answers) : answers[i].attemptId = reqs[s].attemptId

(* The calls sent with expired = true. *)
ExpiredCalls(sent) == { i \in 1..Len(sent) : sent[i].expired }

(* The seconds the countdown of the attempt began with. *)
Countdown == remainingSeconds + ticks

(* C23: a countdown of 60 * L seconds ends at its 60 * L-th tick: every
   earlier tick of the running timer takes one second off and leaves it
   running, that tick moves it from running to expired and sends one
   submitAttempt with expired = true; no other step of the timer (a step in
   which no call is answered) expires it, so an attempt sees one expiry by
   the clock and one such call. *)
C23_TimerExpiresOnce ==
  [][ /\ ticks' = ticks + 1 =>
           /\ timerStatus = "running"
           /\ \E L \in 1..TimerMinutes : Countdown = SecondsPerMinute * L
           /\ remainingSeconds' = remainingSeconds - 1
           /\ ticks' < Countdown => timerStatus' = "running" /\ calls' = calls
           /\ ticks' = Countdown =>
                /\ timerStatus' = "expired"
                /\ Len(calls') = Len(calls) + 1
                /\ calls'[Len(calls')].expired
                /\ SubSeq(calls', 1, Len(calls)) = calls
      /\ ( /\ timerStatus = "running" /\ timerStatus' = "expired"
           /\ \A i \in 1..Len(calls) : calls'[i].pending = calls[i].pending ) =>
             ticks' = ticks + 1 /\ ticks' = Countdown
      /\ ExpiredCalls(calls') # ExpiredCalls(calls) =>
           timerStatus = "running" /\ timerStatus' = "expired"
      /\ Cardinality(ExpiredCalls(calls')) <= runs' ]_vars

C23_Witness ==
  /\ timerStatus = "expired"
  /\ currentAttempt # None
  /\ ticks = SecondsPerMinute * Val(currentAttempt).timeLimitMinutes
  /\ remainingSeconds = 0
  /\ Cardinality(ExpiredCalls(calls)) = 1

(* C24: a timer that goes from paused to running has its tick callback
   scheduled again and keeps the seconds it had when paused. *)
C24_ResumeSchedules ==
  [][ timerStatus = "paused" /\ timerStatus' = "running" =>
        /\ remainingSeconds' = remainingSeconds
        /\ timerId' # None
        /\ intervals' = { Val(timerId') } ]_vars

(* C25: once timerStatus is submitted or expired, no startTimer,
   pauseTimer, resumeTimer or tick (the steps that begin no attempt and
   neither send nor answer a call) changes timerStatus or remainingSeconds
   or schedules a callback. *)
C25_TerminalTimer ==
  [][ ( /\ timerStatus \in { "submitted", "expired" }
        /\ runs' = runs /\ calls' = calls ) =>
          /\ timerStatus' = timerStatus
          /\ remainingSeconds' = remainingSeconds
          /\ intervals' \subseteq intervals ]_vars

(* C26: in a paused, submitted or expired timer no tick callback is
   scheduled and timerId is null. *)
C26_NoStaleInterval ==
  timerStatus \in { "paused", "submitted", "expired" } =>
    intervals = {} /\ timerId = None

(* C27: pauseTimer on a running timer sets paused and keeps
   remainingSeconds, in any other status it changes nothing; a tick of a
   paused timer changes nothing, and nothing but pauseTimer sets paused. *)
C27_PauseKeepsSeconds ==
  [][ /\ IF timerStatus = "running"
         THEN /\ pauseTimer(Store).timerStatus = "paused"
              /\ pauseTimer(Store).remainingSeconds = remainingSeconds
         ELSE pauseTimer(Store) = Store
      /\ timerStatus = "paused" => tick(Store) = Store
      /\ timerStatus' = "paused" /\ timerStatus # "paused" =>
           timerStatus = "running" /\ remainingSeconds' = remainingSeconds
      /\ timerStatus = "paused" /\ runs' = runs =>
           remainingSeconds' = remainingSeconds ]_vars

C27_Witness ==
  /\ timerStatus = "paused"
  /\ ticks > 0
  /\ remainingSeconds > 0

(* C28: startTimer on a running timer changes nothing, and the window never
   holds more than one tick callback of the store. *)
C28_OneInterval ==
  /\ timerStatus = "running" => startTimer(Store) = Store
  /\ Cardinality(intervals) <= 1

C28_Witness ==
  /\ timerStatus = "running"
  /\ timerId # None /\ Val(timerId) > 1
  /\ intervals = { Val(timerId) }

(* What the claims say of a summary: the percents of the user's attempts
   started in the seven-day window that have a score, and their mean rounded
   to the nearest whole, a half upwards. *)
Summarized(s) == Done(s, "buildExamDashboardSummary")

ScoredPercents(u) ==
  LET rows == SelectSeq(attempts, LAMBDA r : /\ r.userId = u
                                            /\ r.startedAt >= today - WeekDays
                                            /\ r.percent # None)
  IN  [ i \in 1..Len(rows) |-> Val(rows[i].percent) ]

HalfUp(sum, n) == (2 * sum + n) \div (2 * n)

(* C29: avgPercentThisWeek and bestPercentThisWeek of a summary are the
   rounded mean and the greatest of the percents of the user's attempts
   started in the seven-day window that have a percent; attempts in progress
   change neither, and both are 0 when no such attempt has a percent. *)
C29_ScoredAttemptsOnly ==
  \A s \in Slots :
    Summarized(s) =>
      LET ps == ScoredPercents(reqs[s].user)
          performance == Val(reqs[s].summary).performance
      IN  /\ performance.avgPercentThisWeek
               = (IF ps = << >> THEN 0 ELSE HalfUp(Sum(ps), Len(ps)))
          /\ performance.bestPercentThisWeek
               = (IF ps = << >> THEN 0 ELSE Greatest(ps))

(* The operations that report to the dashboard, and the event each names. *)
Mutates(r) ==
  r.op \in { "createExamPaper", "deleteExamPaper", "submitAttempt" } /\ r.result = "OK"

EventOf(r) ==
  CASE r.op = "createExamPaper" -> "paper.created"
    [] r.op = "deleteExamPaper" -> "paper.deleted"
    [] r.op = "submitAttempt" -> IF r.expired THEN "exam.expired" ELSE "exam.submitted"

(* The stored mutation of the finished request r shows in the summary. *)
Reflects(r, summary) ==
  /\ summary.totals.papers = Cardinality({ p \in papers : p.userId = r.user })
  /\ summary.totals.attempts = Len(SelectSeq(attempts, LAMBDA a : a.userId = r.user))
  /\ r.op = "createExamPaper" => Val(r.paper) \in papers
  /\ r.op = "deleteExamPaper" => Val(r.paper) \notin papers
  /\ r.op = "submitAttempt" =>
       LET row == attempts[r.attemptId]
       IN  /\ row.status = (IF r.expired THEN "expired" ELSE "submitted")
           /\ row.startedAt >= today - WeekDays =>
                 /\ summary.totals.attemptsThisWeek >= 1
                 /\ summary.performance.bestPercentThisWeek >= Val(row.percent)

(* C30: a createExamPaper, deleteExamPaper or submitAttempt that succeeds
   has pushed exactly one summary when it returns, with the event type of
   the operation; the summary is built in a later step than the write, from
   the store that holds the mutation, and that step changes no stored row.
   A request that fails, and any other operation, pushes nothing. *)
C30_PushAfterMutation ==
  [][ \A s \in Slots :
        /\ reqs'[s].pushed # reqs[s].pushed => Finishes(s) \/ reqs'[s].op = "idle"
        /\ Finishes(s) =>
             LET r == reqs'[s]
             IN  IF ~Mutates(r) THEN r.pushed = << >>
                 ELSE /\ Len(r.pushed) = 1
                      /\ r.pushed[1].userId = r.user
                      /\ r.pushed[1].eventType = EventOf(r)
                      /\ Reflects(r, r.pushed[1].summary)
                      /\ UNCHANGED << papers, nextPaperId, snapshots, attempts, answers >>
    ]_vars

C30_Witness ==
  \E s \in Slots :
    /\ Done(s, "submitAttempt") /\ reqs[s].result = "OK"
    /\ Len(reqs[s].pushed) = 1
    /\ reqs[s].pushed[1].eventType = "exam.expired"
    /\ reqs[s].pushed[1].summary.totals.papers = 0
    /\ reqs[s].pushed[1].summary.performance.bestPercentThisWeek > 0

(* The write of a finished createExamPaper, deleteExamPaper or submitAttempt
   is in the store. *)
Persisted(r) ==
  /\ r.op = "createExamPaper" => Val(r.paper) \in papers
  /\ r.op = "deleteExamPaper" => Val(r.paper) \notin papers
  /\ r.op = "submitAttempt" =>
       /\ attempts[r.attemptId].status = (IF r.expired THEN "expired" ELSE "submitted")
       /\ attempts[r.attemptId].percent # None

(* C32: a free user gets no explanation from getAttemptReview: asked with
   includeExplanations the call fails with PAYMENT_REQUIRED, and asked
   without it the review items handed back carry no explanation. *)
C32_NoExplanationsForFree ==
  \A s \in Slots :
    (Done(s, "getAttemptReview") /\ ~isPaid(reqs[s].user)) =>
      /\ reqs[s].includeExplanations => reqs[s].result = "PAYMENT_REQUIRED"
      /\ \A i \in 1..Len(reqs[s].review) :
           reqs[s].review[i].question.explanation = None

(* C33: in every submitted or expired attempt correctCount + wrongCount +
   unattemptedCount is the attempt's totalQuestions. *)
C33_CountsSumToTotal ==
  \A i \in 1..Len(attempts) :
    attempts[i].status \in { "submitted", "expired" } =>
      Val(attempts[i].correctCount) + Val(attempts[i].wrongCount)
        + Val(attempts[i].unattemptedCount) = attempts[i].totalQuestions

(* C34: when submitAttempt has completed with no other operation running,
   the attempt's correctCount is the number of its answer rows with
   isCorrect true and its wrongCount the number of those with isCorrect
   false. *)
C34_ScoreMatchesBackfill ==
  \A s \in Slots :
    ( Done(s, "submitAttempt") /\ reqs[s].result = "OK" ) =>
      LET row == attempts[reqs[s].attemptId]
          as == SelectAnswers(row.id, row.userId)
          Judged(v) == Cardinality({ i \in 1..Len(as) : as[i].isCorrect = Some(v) })
      IN  /\ Val(row.correctCount) = Judged(TRUE)
          /\ Val(row.wrongCount) = Judged(FALSE)

(* C35: when a submit from the page and the submit of the expiry have both
   been sent for one attempt and every request has completed, the store's
   timerStatus is the status stored for the attempt. *)
C35_ClientMatchesServer ==
  ( /\ \E i, j \in 1..Len(calls) : calls[i].expired /\ ~calls[j].expired
    /\ \A i \in 1..Len(calls) : ~calls[i].pending
    /\ \A s \in Slots : Free(s) )
  => timerStatus = attempts[Val(currentAttempt).id].status

(* C36: a saveAnswer that updates an existing answer row changes only what
   the request carries: without selectedOption the stored selection stays,
   without isFlagged the stored flag stays, isCorrect stays, a stored
   selection is never put back to null, and no other row changes. *)
C36_SaveKeepsAbsentFields ==
  [][ \A s \in Slots :
        ( At(s, "saveAnswer", "sv_write") /\ reqs[s].existing # None
          /\ reqs'[s].pc = "done" ) =>
          LET r == reqs[s]
              id == Val(r.existing).id
          IN  /\ Len(answers') = Len(answers)
              /\ \A k \in 1..Len(answers) : k # id => answers'[k] = answers[k]
              /\ r.selectedOption = None =>
                   answers'[id].selectedOption = answers[id].selectedOption
              /\ r.isFlagged = None => answers'[id].isFlagged = answers[id].isFlagged
              /\ answers'[id].isCorrect = answers[id].isCorrect
              /\ answers[id].selectedOption # None => answers'[id].selectedOption # None
    ]_vars

(* C37: in every state of the store after a startAttempt remainingSeconds
   is not negative and a running timer has at least one second left, and
   remainingSeconds grows in no step but that of a startAttempt. *)
C37_SecondsWithinRange ==
  [][ /\ remainingSeconds' >= 0
      /\ timerStatus' = "running" => remainingSeconds' >= 1
      /\ remainingSeconds' > remainingSeconds => runs' = runs + 1
    ]_vars

C37_Witness ==
  /\ runs >= 1
  /\ timerStatus = "running"
  /\ remainingSeconds = 1
  /\ timerId = None

(* C38: every summary that buildExamDashboardSummary returns has
   attemptsThisWeek <= attempts and
   0 <= avgPercentThisWeek <= bestPercentThisWeek <= 100, also when requests
   of the same user start or submit attempts between its queries. *)
C38_SummaryConsistent ==
  \A s \in Slots :
    Summarized(s) =>
      LET summary == Val(reqs[s].summary)
      IN  /\ summary.totals.attemptsThisWeek <= summary.totals.attempts
          /\ 0 <= summary.performance.avgPercentThisWeek
          /\ summary.performance.avgPercentThisWeek
               <= summary.performance.bestPercentThisWeek
          /\ summary.performance.bestPercentThisWeek <= 100

Undelivered(r) == \E i \in 1..Len(r.pushed) : ~r.pushed[i].delivered

(* C31: a createExamPaper, deleteExamPaper or submitAttempt whose summary
   push is not delivered still returns its normal result, and the write it
   made is in the store when it returns: the step of the failed push changes
   no stored row. *)
C31_PushFailureSuppressed ==
  [][ \A s \in Slots :
        (Finishes(s) /\ Undelivered(reqs'[s])) =>
          /\ reqs'[s].op \in { "createExamPaper", "deleteExamPaper", "submitAttempt" }
          /\ reqs'[s].result = "OK"
          /\ reqs'[s].paper = reqs[s].paper /\ reqs'[s].attempt = reqs[s].attempt
          /\ Persisted(reqs'[s])
          /\ UNCHANGED << papers, nextPaperId, snapshots, attempts, answers >>
    ]_vars

C31_Witness ==
  /\ \E s \in Slots :
       /\ Done(s, "deleteExamPaper") /\ reqs[s].result = "OK"
       /\ Undelivered(reqs[s])
  /\ \E i \in 1..Len(attempts) : attempts[i].status = "expired"

==========================================================================
